---- MODULE Spec2Model ----
(***************************************************************************)
(* Nutrifex persistence layer: the SQLite storage shared by the            *)
(* repositories (one connection, foreign keys on), the Food and PantryItem *)
(* repositories, and the UnitOfWork transaction coordinator, driven by     *)
(* asynchronous callers that interleave at every await.                    *)
(***************************************************************************)
EXTENDS Naturals, Integers, Sequences, FiniteSets, TLC

\* ------------------------------------------------------------------ bounds
\* Total number of operations (calls and statements) the callers start.
MaxOps == 3

\* ------------------------------------------------------------------ data
Procs == {1, 2}

FoodIds == {"f1", "f2"}
ItemIds == {"p1", "p2"}
\* The non-key columns of a foods row, and the quantity_amount of a pantry row.
FoodVals == {"a", "b"}
Amounts == {1}

NoRow == [food_id |-> "none", amount |-> 0]
Untracked == [food_id |-> "untracked", amount |-> 0]
PantryRows == [food_id : FoodIds, amount : Amounts]

EmptyTables ==
    [foods |-> [f \in FoodIds |-> "absent"], pantry |-> [i \in ItemIds |-> NoRow]]

\* A connection on which the pragma was never issued.
ForeignKeysOff == FALSE
\* PRAGMA foreign_keys = ON, issued once when the connection is opened.
ForeignKeys == TRUE

HasFood(t, f) == t.foods[f] # "absent"
HasItem(t, i) == t.pantry[i] # NoRow

\* ------------------------------------------------------------ SQL statements
\* Each statement returns [ok, changes, t]: whether the engine accepted it,
\* the number of rows it changed, and the table contents afterwards.
Stmt(ok, changes, t) == [ok |-> ok, changes |-> changes, t |-> t]

\* INSERT INTO foods: a primary-key clash is a constraint error.
SqlInsertFood(t, id, v) ==
    IF HasFood(t, id) THEN Stmt(FALSE, 0, t)
    ELSE Stmt(TRUE, 1, [t EXCEPT !.foods[id] = v])

\* UPDATE foods SET ... WHERE id = ?
SqlUpdateFood(t, id, v) ==
    IF HasFood(t, id) THEN Stmt(TRUE, 1, [t EXCEPT !.foods[id] = v])
    ELSE Stmt(TRUE, 0, t)

\* The rows ON DELETE CASCADE removes together with food id.
CascadeRows(t, id) ==
    IF ForeignKeys THEN {i \in ItemIds : t.pantry[i].food_id = id} ELSE {}

\* DELETE FROM foods WHERE id = ?
SqlDeleteFood(t, id) ==
    Stmt(TRUE, IF HasFood(t, id) THEN 1 ELSE 0,
         [foods |-> [t.foods EXCEPT ![id] = "absent"],
          pantry |-> [i \in ItemIds |->
                        IF i \in CascadeRows(t, id) THEN NoRow ELSE t.pantry[i]]])

\* A foreign key that accepts every food_id.
ForeignKeyIgnored(t, f) == TRUE
\* FOREIGN KEY (food_id) REFERENCES foods(id): the row may be written.
ForeignKeyHolds(t, f) == ~ForeignKeys \/ HasFood(t, f)

\* INSERT INTO pantry_items
SqlInsertItem(t, id, f, a) ==
    IF HasItem(t, id) \/ ~ForeignKeyHolds(t, f) THEN Stmt(FALSE, 0, t)
    ELSE Stmt(TRUE, 1, [t EXCEPT !.pantry[id] = [food_id |-> f, amount |-> a]])

\* UPDATE pantry_items SET food_id = ?, ... WHERE id = ?
SqlUpdateItem(t, id, f, a) ==
    IF ~HasItem(t, id) THEN Stmt(TRUE, 0, t)
    ELSE IF ~ForeignKeyHolds(t, f) THEN Stmt(FALSE, 0, t)
    ELSE Stmt(TRUE, 1, [t EXCEPT !.pantry[id] = [food_id |-> f, amount |-> a]])

\* A DELETE that removes no row.
SqlDeleteNothing(t, id) == Stmt(TRUE, 0, t)
\* DELETE FROM pantry_items WHERE id = ?
SqlDeleteItem(t, id) ==
    Stmt(TRUE, IF HasItem(t, id) THEN 1 ELSE 0, [t EXCEPT !.pantry[id] = NoRow])

\* DELETE FROM pantry_items WHERE food_id = ?
SqlDeleteByFoodId(t, f) ==
    Stmt(TRUE, Cardinality({i \in ItemIds : t.pantry[i].food_id = f}),
         [t EXCEPT !.pantry = [i \in ItemIds |->
             IF t.pantry[i].food_id = f THEN NoRow ELSE t.pantry[i]]])

\* --------------------------------------------------------------- repositories
\* A repository write returns [err, t]: the error the caller receives
\* ("none" when the promise resolves) and the table contents afterwards.
Written(err, t) == [err |-> err, t |-> t]

\* DatabaseConnection.run: an engine error is rethrown as a DatabaseError.
RunError(r) == IF r.ok THEN "none" ELSE "DatabaseError"

\* An update() that does not look at the number of changed rows.
UpdateErrorUnchecked(r) == RunError(r)
\* update(): zero changed rows is a not-found error.
UpdateError(r) ==
    IF ~r.ok THEN "DatabaseError" ELSE IF r.changes = 0 THEN "NotFound" ELSE "none"

FoodSave(t, id, v) ==
    LET r == SqlInsertFood(t, id, v) IN Written(RunError(r), r.t)
FoodUpdate(t, id, v) ==
    LET r == SqlUpdateFood(t, id, v) IN Written(UpdateError(r), r.t)
FoodDelete(t, id) ==
    LET r == SqlDeleteFood(t, id) IN Written(RunError(r), r.t)
PantrySave(t, id, f, a) ==
    LET r == SqlInsertItem(t, id, f, a) IN Written(RunError(r), r.t)
PantryUpdate(t, id, f, a) ==
    LET r == SqlUpdateItem(t, id, f, a) IN Written(UpdateError(r), r.t)
PantryDelete(t, id) ==
    LET r == SqlDeleteItem(t, id) IN Written(RunError(r), r.t)
PantryDeleteByFoodId(t, f) ==
    LET r == SqlDeleteByFoodId(t, f) IN Written(RunError(r), r.t)

\* exists(id): SELECT COUNT(*) ... WHERE id = ?, count > 0
FoodExists(t, id) == Cardinality({f \in FoodIds : f = id /\ HasFood(t, f)}) > 0
PantryExists(t, id) == Cardinality({i \in ItemIds : i = id /\ HasItem(t, i)}) > 0

\* FoodRepository.findByIdOrNull(id): the entity of the row, the empty set
\* standing for null
FoodFindByIdOrNull(t, id) ==
    {[id |-> f, v |-> t.foods[f]] : f \in {g \in FoodIds : g = id /\ HasFood(t, g)}}

\* The repository writes a caller can issue.
Writes ==
    [op : {"foods.save", "foods.update"}, id : FoodIds, v : FoodVals]
    \cup [op : {"foods.delete"}, id : FoodIds]
    \cup [op : {"pantryItems.save", "pantryItems.update"},
          id : ItemIds, f : FoodIds, a : Amounts]
    \cup [op : {"pantryItems.delete"}, id : ItemIds]
    \cup [op : {"pantryItems.deleteByFoodId"}, f : FoodIds]

Apply(t, c) ==
    CASE c.op = "foods.save" -> FoodSave(t, c.id, c.v)
      [] c.op = "foods.update" -> FoodUpdate(t, c.id, c.v)
      [] c.op = "foods.delete" -> FoodDelete(t, c.id)
      [] c.op = "pantryItems.save" -> PantrySave(t, c.id, c.f, c.a)
      [] c.op = "pantryItems.update" -> PantryUpdate(t, c.id, c.f, c.a)
      [] c.op = "pantryItems.delete" -> PantryDelete(t, c.id)
      [] c.op = "pantryItems.deleteByFoodId" -> PantryDeleteByFoodId(t, c.f)

\* The rows on which two table contents differ.
Changed(t, u) ==
    {<<"foods", f>> : f \in {g \in FoodIds : t.foods[g] # u.foods[g]}}
    \cup {<<"pantry_items", i>> : i \in {j \in ItemIds : t.pantry[j] # u.pantry[j]}}

\* ------------------------------------------------------- storage transactions
\* BEGIN TRANSACTION is refused while the connection has a transaction open.
DbBeginOk(open) == ~open
\* COMMIT and ROLLBACK are refused when no transaction is open.
DbCommitOk(open) == open
DbRollbackOk(open) == open
\* How a COMMIT the engine accepted for execution can end: done, refused with
\* the transaction left open, or failed with the transaction rolled back by
\* the engine.
CommitOutcomes == {"ok", "busy", "aborted"}

\* ------------------------------------------------------------------ UnitOfWork
\* A beginTransaction() without its guard.
BeginNeverThrows(flag) == FALSE
\* beginTransaction: if (this.inTransaction) throw
BeginThrows(flag) == flag
\* A commit() without its guard.
CommitNeverThrows(flag) == FALSE
\* commit: if (!this.inTransaction) throw
CommitThrows(flag) == ~flag
\* A rollback() guarded the wrong way round: it refuses inside a transaction.
RollbackThrowsInTransaction(flag) == flag
\* rollback: if (!this.inTransaction) throw
RollbackThrows(flag) == ~flag
\* inTransaction after beginTransaction's await resolved
FlagAfterBegin == TRUE
\* A commit() that leaves the flag as it was.
FlagKeptAfterCommit(ok) == TRUE
\* inTransaction after commit's await, whether db.commit resolved or rejected
FlagAfterCommit(ok) == FALSE
\* inTransaction after rollback's await, whether db.rollback resolved or rejected
FlagAfterRollback(ok) == FALSE
\* execute's catch block: await this.rollback(); throw error. A rollback that
\* throws replaces the error being handled.
Rethrown(cause, rollbackErr) == IF rollbackErr # "none" THEN rollbackErr ELSE cause

\* ----------------------------------------------------- what a transaction wrote
\* For each row, the contents the transaction's owner last gave it, or
\* "untracked" when it did not write the row or another caller wrote it since.
NoEff ==
    [foods |-> [f \in FoodIds |-> "untracked"], pantry |-> [i \in ItemIds |-> Untracked]]

Targets(c) ==
    IF c.op \in {"foods.save", "foods.update", "foods.delete"} THEN {<<"foods", c.id>>}
    ELSE IF c.op = "pantryItems.deleteByFoodId" THEN {}
    ELSE {<<"pantry_items", c.id>>}

TrackOwn(eff, t, u, c) ==
    LET k == Changed(t, u) \cup Targets(c) IN
    [foods |-> [f \in FoodIds |->
                  IF <<"foods", f>> \in k THEN u.foods[f] ELSE eff.foods[f]],
     pantry |-> [i \in ItemIds |->
                  IF <<"pantry_items", i>> \in k THEN u.pantry[i] ELSE eff.pantry[i]]]

TrackOther(eff, t, u) ==
    LET k == Changed(t, u) IN
    [foods |-> [f \in FoodIds |->
                  IF <<"foods", f>> \in k THEN "untracked" ELSE eff.foods[f]],
     pantry |-> [i \in ItemIds |->
                  IF <<"pantry_items", i>> \in k THEN Untracked ELSE eff.pantry[i]]]

\* The tracked rows whose contents in t are not what the owner wrote.
Lost(eff, t) ==
    {<<"foods", f>> : f \in {g \in FoodIds :
        eff.foods[g] # "untracked" /\ eff.foods[g] # t.foods[g]}}
    \cup {<<"pantry_items", i>> : i \in {j \in ItemIds :
        eff.pantry[j] # Untracked /\ eff.pantry[j] # t.pantry[j]}}

\* The tracked rows that still hold what the owner wrote, where that differs
\* from the contents pre from before the transaction.
Visible(eff, pre, t) ==
    {<<"foods", f>> : f \in {g \in FoodIds :
        eff.foods[g] = t.foods[g] /\ eff.foods[g] # pre.foods[g]}}
    \cup {<<"pantry_items", i>> : i \in {j \in ItemIds :
        eff.pantry[j] = t.pantry[j] /\ eff.pantry[j] # pre.pantry[j]}}

\* ----------------------------------------------------------------------- state
VARIABLES
    tables,         \* contents of foods and pantry_items as the connection sees them
    txOpen,         \* the connection has a transaction open
    snap,           \* the contents ROLLBACK restores
    inTransaction,  \* UnitOfWork.inTransaction
    owner,          \* the callers holding a transaction begun with beginTransaction()
    pc,             \* where each caller is: "idle" or the await it is suspended at
    ctx,            \* the locals of each caller's running operation
    done,           \* the outcome of the operation that completed last
    ops,            \* operations started so far
    query           \* a stored row with its columns, and the last query run on it

vars == <<tables, txOpen, snap, inTransaction, owner, pc, ctx, done, ops, query>>
storage == <<tables, txOpen, snap>>

NoCtx ==
    [pre |-> EmptyTables, n |-> 0, eff |-> NoEff, res |-> "none", cause |-> "none",
     result |-> "none", sent |-> {}, foreign |-> FALSE,
     kind |-> "none", arg |-> "none", rows |-> {}]

NoDone ==
    [op |-> "none", err |-> "none", cause |-> "none", result |-> "none", n |-> 0,
     changed |-> {}, visible |-> {}, lost |-> {}, foreign |-> FALSE,
     sent |-> {}, open |-> FALSE, flag |-> FALSE,
     items |-> {}, missing |-> FALSE, outside |-> {}]

\* No row stored with its columns, no query run.
NoQuery == [phase |-> "empty"]

\* Contents earlier saves have left in the tables when the callers start.
Seeds ==
    LET row(f) == [food_id |-> f, amount |-> 1]
        one == [EmptyTables EXCEPT !.foods["f1"] = "a"]
        two == [one EXCEPT !.foods["f2"] = "a"]
    IN {EmptyTables, one, [one EXCEPT !.pantry["p1"] = row("f1")],
        [two EXCEPT !.pantry["p1"] = row("f1"), !.pantry["p2"] = row("f2")]}

Init ==
    /\ tables \in Seeds
    /\ txOpen = FALSE
    /\ snap = EmptyTables
    /\ inTransaction = FALSE
    /\ owner = {}
    /\ pc = [p \in Procs |-> "idle"]
    /\ ctx = [p \in Procs |-> NoCtx]
    /\ done = NoDone
    /\ ops = 0
    /\ query = NoQuery

\* --------------------------------------------------------------------- helpers
\* The outcome of caller p's operation op ending with err (or "none"), the
\* storage then holding t with open/flag as transaction state.
Outcome(c, op, err, t, open, flag) ==
    [NoDone EXCEPT !.op = op, !.err = err, !.cause = c.cause, !.result = c.result,
                   !.n = c.n, !.changed = Changed(c.pre, t),
                   !.visible = Visible(c.eff, c.pre, t), !.lost = Lost(c.eff, t),
                   !.foreign = c.foreign, !.sent = c.sent, !.open = open, !.flag = flag]

\* Caller p's operation completes: its promise settles with outcome d.
Finish(p, d) ==
    /\ pc' = [pc EXCEPT ![p] = "idle"]
    /\ ctx' = [ctx EXCEPT ![p] = NoCtx]
    /\ done' = d

\* A write by caller p changed the tables from t to u: what the context of
\* every caller with a transaction records about it (c is p's own context
\* afterwards). foreign: another caller has changed the tables since this
\* caller's COMMIT or ROLLBACK was sent.
Tracked(p, c, t, u) ==
    [q \in Procs |->
        IF q = p THEN c
        ELSE IF pc[q] = "idle" /\ q \notin owner THEN ctx[q]
        ELSE [ctx[q] EXCEPT !.eff = TrackOther(ctx[q].eff, t, u),
                            !.foreign = @ \/ (t # u)]]

\* execute's catch block, entered by caller p with error cause while
\* inTransaction is flag: rollback() either throws at once or sends ROLLBACK.
Catch(p, cause, flag) ==
    LET c == [ctx[p] EXCEPT !.cause = cause] IN
    IF RollbackThrows(flag)
    THEN /\ Finish(p, Outcome(c, "execute", Rethrown(cause, "No transaction in progress"),
                              tables, txOpen, flag))
         /\ UNCHANGED storage
    ELSE /\ IF DbRollbackOk(txOpen)
            THEN tables' = snap /\ txOpen' = FALSE /\ snap' = EmptyTables
            ELSE UNCHANGED storage
         /\ pc' = [pc EXCEPT ![p] = "execute: await db.rollback"]
         /\ ctx' = [ctx EXCEPT ![p] =
                [c EXCEPT !.res = IF DbRollbackOk(txOpen) THEN "ok" ELSE "failed",
                          !.sent = @ \cup {"ROLLBACK"}, !.foreign = FALSE]]
         /\ UNCHANGED done

\* ---------------------------------------------------------- UnitOfWork.execute
\* execute(callback) is called: beginTransaction() throws or sends BEGIN.
ExecuteCall(p) ==
    /\ pc[p] = "idle" /\ p \notin owner
    /\ ops < MaxOps /\ ops' = ops + 1
    /\ IF BeginThrows(inTransaction)
       THEN /\ done' = Outcome([NoCtx EXCEPT !.pre = tables,
                                              !.cause = "Transaction already in progress"],
                               "execute", "Transaction already in progress",
                               tables, txOpen, inTransaction)
            /\ UNCHANGED <<storage, pc, ctx>>
       ELSE /\ IF DbBeginOk(txOpen)
               THEN txOpen' = TRUE /\ snap' = tables
               ELSE UNCHANGED <<txOpen, snap>>
            /\ pc' = [pc EXCEPT ![p] = "execute: await db.beginTransaction"]
            /\ ctx' = [ctx EXCEPT ![p] =
                   [NoCtx EXCEPT !.pre = tables, !.sent = {"BEGIN"},
                                 !.res = IF DbBeginOk(txOpen) THEN "ok" ELSE "failed"]]
            /\ UNCHANGED <<tables, done>>
    /\ UNCHANGED <<inTransaction, owner>>
    /\ UNCHANGED query

\* db.beginTransaction() settled: the flag is set and the callback starts, or
\* execute rejects with the storage error (no try block is entered yet).
ExecuteBegun(p) ==
    /\ pc[p] = "execute: await db.beginTransaction"
    /\ IF ctx[p].res = "ok"
       THEN /\ inTransaction' = FlagAfterBegin
            /\ pc' = [pc EXCEPT ![p] = "execute: callback"]
            /\ UNCHANGED <<ctx, done>>
       ELSE /\ Finish(p, Outcome([ctx[p] EXCEPT !.cause = "Failed to begin transaction"],
                                 "execute", "Failed to begin transaction",
                                 tables, txOpen, inTransaction))
            /\ UNCHANGED inTransaction
    /\ UNCHANGED <<storage, owner, ops>>
    /\ UNCHANGED query

\* The callback awaits a repository write through the unit of work.
CallbackWrite(p, c) ==
    /\ pc[p] = "execute: callback"
    /\ ops < MaxOps /\ ops' = ops + 1
    /\ LET w == Apply(tables, c) IN
       /\ tables' = w.t
       /\ IF w.err = "none"
          THEN /\ ctx' = Tracked(p, [ctx[p] EXCEPT !.n = @ + 1,
                                       !.eff = TrackOwn(@, tables, w.t, c)], tables, w.t)
               /\ UNCHANGED pc
          ELSE /\ ctx' = [ctx EXCEPT ![p].cause = w.err]
               /\ pc' = [pc EXCEPT ![p] = "execute: callback write failed"]
    /\ UNCHANGED <<txOpen, snap, inTransaction, owner, done>>
    /\ UNCHANGED query

\* The failed write rejects the callback: execute's catch block runs.
CallbackFailed(p) ==
    /\ pc[p] = "execute: callback write failed"
    /\ Catch(p, ctx[p].cause, inTransaction)
    /\ UNCHANGED <<inTransaction, owner, ops>>
    /\ UNCHANGED query

\* The callback throws an error of its own.
CallbackThrow(p) ==
    /\ pc[p] = "execute: callback"
    /\ Catch(p, "Callback error", inTransaction)
    /\ UNCHANGED <<inTransaction, owner, ops>>
    /\ UNCHANGED query

\* The callback calls execute on the same unit of work: that call's
\* beginTransaction() throws, or sends BEGIN and awaits the storage's answer;
\* either way the inner callback is not run before the inner call has settled.
CallbackNested(p) ==
    /\ pc[p] = "execute: callback"
    /\ ops < MaxOps /\ ops' = ops + 1
    /\ IF BeginThrows(inTransaction)
       THEN /\ done' = Outcome([ctx[p] EXCEPT !.sent = {}], "nested execute",
                               "Transaction already in progress",
                               tables, txOpen, inTransaction)
            /\ UNCHANGED <<txOpen, snap>>
       ELSE /\ IF DbBeginOk(txOpen)
               THEN txOpen' = TRUE /\ snap' = tables
               ELSE UNCHANGED <<txOpen, snap>>
            /\ done' = Outcome([ctx[p] EXCEPT !.sent = {"BEGIN"}], "nested execute",
                               IF DbBeginOk(txOpen) THEN "none"
                               ELSE "Failed to begin transaction",
                               tables, txOpen', inTransaction)
    /\ UNCHANGED <<tables, inTransaction, owner, pc, ctx>>
    /\ UNCHANGED query

\* The callback returns: commit() throws into the catch block or sends COMMIT.
CallbackReturn(p) ==
    /\ pc[p] = "execute: callback"
    /\ IF CommitThrows(inTransaction)
       THEN Catch(p, "No transaction in progress", inTransaction)
       ELSE \E o \in CommitOutcomes :
            LET ok == DbCommitOk(txOpen) /\ o = "ok" IN
            /\ IF ~DbCommitOk(txOpen) \/ o = "busy" THEN UNCHANGED storage
               ELSE /\ tables' = IF o = "ok" THEN tables ELSE snap
                    /\ txOpen' = FALSE
                    /\ snap' = EmptyTables
            /\ pc' = [pc EXCEPT ![p] = "execute: await db.commit"]
            /\ ctx' = [ctx EXCEPT ![p] =
                   [@ EXCEPT !.res = IF ok THEN "ok" ELSE "failed",
                             !.result = "callback result",
                             !.sent = @ \cup {"COMMIT"}, !.foreign = FALSE]]
            /\ UNCHANGED done
    /\ UNCHANGED <<inTransaction, owner, ops>>
    /\ UNCHANGED query

\* db.commit() settled: commit() clears the flag; execute returns the
\* callback's result, or commit()'s rethrown error enters the catch block.
ExecuteCommitted(p) ==
    /\ pc[p] = "execute: await db.commit"
    /\ LET ok == ctx[p].res = "ok" IN
       /\ inTransaction' = FlagAfterCommit(ok)
       /\ IF ok
          THEN /\ Finish(p, Outcome(ctx[p], "execute", "none",
                                    tables, txOpen, inTransaction'))
               /\ UNCHANGED storage
          ELSE Catch(p, "Failed to commit transaction", inTransaction')
    /\ UNCHANGED <<owner, ops>>
    /\ UNCHANGED query

\* db.rollback() settled: rollback() clears the flag and execute rethrows.
ExecuteRolledBack(p) ==
    /\ pc[p] = "execute: await db.rollback"
    /\ LET ok == ctx[p].res = "ok" IN
       /\ inTransaction' = FlagAfterRollback(ok)
       /\ Finish(p, Outcome(ctx[p], "execute",
                            Rethrown(ctx[p].cause,
                                     IF ok THEN "none" ELSE "Failed to rollback transaction"),
                            tables, txOpen, inTransaction'))
    /\ UNCHANGED <<storage, owner, ops>>
    /\ UNCHANGED query

\* ------------------------------------------- beginTransaction / commit / rollback
\* A caller begins a transaction by hand.
BeginCall(p) ==
    /\ pc[p] = "idle" /\ p \notin owner
    /\ ops < MaxOps /\ ops' = ops + 1
    /\ IF BeginThrows(inTransaction)
       THEN /\ done' = Outcome([NoCtx EXCEPT !.pre = tables,
                                              !.cause = "Transaction already in progress"],
                               "beginTransaction", "Transaction already in progress",
                               tables, txOpen, inTransaction)
            /\ UNCHANGED <<storage, pc, ctx>>
       ELSE /\ IF DbBeginOk(txOpen)
               THEN txOpen' = TRUE /\ snap' = tables
               ELSE UNCHANGED <<txOpen, snap>>
            /\ pc' = [pc EXCEPT ![p] = "beginTransaction: await db.beginTransaction"]
            /\ ctx' = [ctx EXCEPT ![p] =
                   [NoCtx EXCEPT !.pre = tables, !.sent = {"BEGIN"},
                                 !.res = IF DbBeginOk(txOpen) THEN "ok" ELSE "failed"]]
            /\ UNCHANGED <<tables, done>>
    /\ UNCHANGED <<inTransaction, owner>>
    /\ UNCHANGED query

BeginDone(p) ==
    /\ pc[p] = "beginTransaction: await db.beginTransaction"
    /\ pc' = [pc EXCEPT ![p] = "idle"]
    /\ IF ctx[p].res = "ok"
       THEN /\ inTransaction' = FlagAfterBegin
            /\ owner' = owner \cup {p}
            /\ done' = Outcome(ctx[p], "beginTransaction", "none",
                               tables, txOpen, inTransaction')
            /\ UNCHANGED ctx
       ELSE /\ done' = Outcome([ctx[p] EXCEPT !.cause = "Failed to begin transaction"],
                               "beginTransaction", "Failed to begin transaction",
                               tables, txOpen, inTransaction)
            /\ ctx' = [ctx EXCEPT ![p] = NoCtx]
            /\ UNCHANGED <<inTransaction, owner>>
    /\ UNCHANGED <<storage, ops>>
    /\ UNCHANGED query

\* commit() or rollback() by hand. A caller ends only a transaction it began
\* itself; with no transaction in progress any caller may (wrongly) call them.
EndCall(p, what) ==
    /\ pc[p] = "idle"
    /\ p \in owner \/ (owner = {} /\ ~inTransaction)
    /\ ops < MaxOps /\ ops' = ops + 1
    /\ LET c == IF p \in owner THEN ctx[p] ELSE [NoCtx EXCEPT !.pre = tables]
           throws == IF what = "commit" THEN CommitThrows(inTransaction)
                     ELSE RollbackThrows(inTransaction)
           accepted == IF what = "commit" THEN DbCommitOk(txOpen)
                       ELSE DbRollbackOk(txOpen)
       IN
       IF throws
       THEN /\ done' = Outcome([c EXCEPT !.sent = {}], what, "No transaction in progress",
                               tables, txOpen, inTransaction)
            /\ UNCHANGED <<storage, pc, ctx>>
       ELSE \E o \in (IF what = "commit" THEN CommitOutcomes ELSE {"ok"}) :
            /\ IF ~accepted \/ o = "busy" THEN UNCHANGED storage
               ELSE /\ tables' = IF what = "commit" /\ o = "ok" THEN tables ELSE snap
                    /\ txOpen' = FALSE
                    /\ snap' = EmptyTables
            /\ pc' = [pc EXCEPT ![p] = what \o ": await db." \o what]
            /\ ctx' = [ctx EXCEPT ![p] =
                   [c EXCEPT !.res = IF accepted /\ o = "ok" THEN "ok" ELSE "failed",
                             !.sent = {IF what = "commit" THEN "COMMIT" ELSE "ROLLBACK"},
                             !.foreign = FALSE]]
            /\ UNCHANGED done
    /\ UNCHANGED <<inTransaction, owner>>
    /\ UNCHANGED query

CommitCall(p) == EndCall(p, "commit")
RollbackCall(p) == EndCall(p, "rollback")

\* db.commit() settled inside commit(): the flag is cleared either way.
CommitDone(p) ==
    /\ pc[p] = "commit: await db.commit"
    /\ LET ok == ctx[p].res = "ok" IN
       /\ inTransaction' = FlagAfterCommit(ok)
       /\ Finish(p, Outcome(ctx[p], "commit",
                            IF ok THEN "none" ELSE "Failed to commit transaction",
                            tables, txOpen, inTransaction'))
    /\ owner' = owner \ {p}
    /\ UNCHANGED <<storage, ops>>
    /\ UNCHANGED query

\* db.rollback() settled inside rollback(): the flag is cleared either way.
RollbackDone(p) ==
    /\ pc[p] = "rollback: await db.rollback"
    /\ LET ok == ctx[p].res = "ok" IN
       /\ inTransaction' = FlagAfterRollback(ok)
       /\ Finish(p, Outcome(ctx[p], "rollback",
                            IF ok THEN "none" ELSE "Failed to rollback transaction",
                            tables, txOpen, inTransaction'))
    /\ owner' = owner \ {p}
    /\ UNCHANGED <<storage, ops>>
    /\ UNCHANGED query

\* --------------------------------------------------- repository calls by callers
\* A caller that is not inside an execute callback awaits a repository write.
\* The statement runs on the shared connection, inside whatever transaction
\* the connection has open. outside: the tables as the write left them, when
\* it succeeded and its caller holds no transaction of its own.
RepositoryWrite(p, c) ==
    /\ pc[p] = "idle"
    /\ ops < MaxOps /\ ops' = ops + 1
    /\ LET w == Apply(tables, c)
           mine == IF p \in owner /\ w.err = "none"
                   THEN [ctx[p] EXCEPT !.n = @ + 1, !.eff = TrackOwn(@, tables, w.t, c)]
                   ELSE ctx[p]
       IN
       /\ tables' = w.t
       /\ ctx' = Tracked(p, mine, tables, w.t)
       /\ done' = [Outcome([NoCtx EXCEPT !.pre = tables], c.op, w.err,
                           w.t, txOpen, inTransaction)
                      EXCEPT !.outside = IF p \notin owner /\ w.err = "none"
                                         THEN {w.t} ELSE {}]
    /\ UNCHANGED <<txOpen, snap, inTransaction, owner, pc>>
    /\ UNCHANGED query

\* ------------------------------------------------------ PantryItemRepository reads
\* The (id, food_id) of a stored pantry row, as a SELECT returns it.
RowOf(t, i) == [id |-> i, food_id |-> t.pantry[i].food_id]
StoredRows(t) == {RowOf(t, i) : i \in {j \in ItemIds : HasItem(t, j)}}

\* loadFood: SELECT ... FROM foods WHERE id = ?
LoadFood(t, f) == [found |-> HasFood(t, f), id |-> f]

\* PantryItem.fromPersistence: the supplied Food must be the persisted one.
FoodIdMismatch(row, food) == row.food_id # food.id

\* PantryItemMapper.toDomain: the entity built from a row and its Food.
ToDomain(row, food) == [id |-> row.id, food_id |-> row.food_id, food |-> food.id]

Resolved(err, items) == [err |-> err, items |-> items]

\* A read that skips the rows whose Food is gone instead of failing.
ResolveFound(rows, t) ==
    Resolved("none", {ToDomain(r, LoadFood(t, r.food_id)) :
                        r \in {x \in rows : LoadFood(t, x.food_id).found}})

\* Promise.all(rows.map(async row => toDomain(row, await loadFood(row.food_id))))
ResolveEach(rows, t) ==
    IF \E r \in rows : ~LoadFood(t, r.food_id).found
    THEN Resolved("Food not found", {})
    ELSE IF \E r \in rows : FoodIdMismatch(r, LoadFood(t, r.food_id))
    THEN Resolved("Food ID mismatch", {})
    ELSE Resolved("none", {ToDomain(r, LoadFood(t, r.food_id)) : r \in rows})

\* findByFoodId: one loadFood(foodId), then rows.map(row => toDomain(row, food))
ResolveByFoodId(rows, t, f) ==
    LET food == LoadFood(t, f) IN
    IF ~food.found THEN Resolved("Food not found", {})
    ELSE IF \E r \in rows : FoodIdMismatch(r, food)
    THEN Resolved("Food ID mismatch", {})
    ELSE Resolved("none", {ToDomain(r, food) : r \in rows})

\* findById: a missing row is an error; findByIdOrNull returns null for it.
ResolveById(rows, t, kind) ==
    IF rows = {} /\ kind = "findById" THEN Resolved("PantryItem not found", {})
    ELSE ResolveEach(rows, t)

\* A findById that returns null for a missing row.
FoodFindByIdLenient(t, id) == Resolved("none", FoodFindByIdOrNull(t, id))
\* FoodRepository.findById: findByIdOrNull, a null being an error
FoodFindById(t, id) ==
    LET food == FoodFindByIdOrNull(t, id) IN
    IF food = {} THEN Resolved("Food not found", {}) ELSE Resolved("none", food)

FoodLookups == {"foods.findById", "foods.findByIdOrNull", "foods.exists"}

\* A caller awaits a lookup of a Food by id: one SELECT on foods.
FoodLookup(p, kind, id) ==
    /\ pc[p] = "idle"
    /\ ops < MaxOps /\ ops' = ops + 1
    /\ LET r == IF kind = "foods.findById" THEN FoodFindById(tables, id)
                ELSE IF kind = "foods.findByIdOrNull"
                THEN Resolved("none", FoodFindByIdOrNull(tables, id))
                ELSE Resolved("none", {})
       IN done' = [NoDone EXCEPT !.op = kind, !.err = r.err, !.items = r.items,
                                 !.result = IF kind = "foods.exists"
                                            THEN IF FoodExists(tables, id)
                                                 THEN "true" ELSE "false"
                                            ELSE "none",
                                 !.open = txOpen, !.flag = inTransaction]
    /\ UNCHANGED <<storage, inTransaction, owner, pc, ctx>>
    /\ UNCHANGED query

ReadKinds ==
    {"findById", "findByIdOrNull", "find", "findAll", "findByFoodId", "findWithPagination"}

\* The rows the first SELECT of a read returns.
Selected(t, kind, arg) ==
    IF kind \in {"findById", "findByIdOrNull"}
    THEN {{r \in StoredRows(t) : r.id = arg}}
    ELSE IF kind = "findByFoodId"
    THEN {{r \in StoredRows(t) : r.food_id = arg}}
    ELSE IF kind = "findAll" THEN {StoredRows(t)}
    ELSE SUBSET StoredRows(t)

ReadArgs(kind) ==
    IF kind \in {"findById", "findByIdOrNull"} THEN ItemIds
    ELSE IF kind = "findByFoodId" THEN FoodIds
    ELSE {"none"}

\* A caller starts a read: the SELECT on pantry_items runs.
ReadCall(p, kind, arg) ==
    /\ pc[p] = "idle"
    /\ ops < MaxOps /\ ops' = ops + 1
    /\ \E rows \in Selected(tables, kind, arg) :
         ctx' = [ctx EXCEPT ![p].kind = kind, ![p].arg = arg, ![p].rows = rows]
    /\ pc' = [pc EXCEPT ![p] = "read: await rows"]
    /\ UNCHANGED <<storage, inTransaction, owner, done>>
    /\ UNCHANGED query

\* The rows arrived: the Food lookups run and the read settles.
ReadResolve(p) ==
    /\ pc[p] = "read: await rows"
    /\ LET c == ctx[p]
           r == IF c.kind = "findByFoodId" THEN ResolveByFoodId(c.rows, tables, c.arg)
                ELSE IF c.kind \in {"findById", "findByIdOrNull"}
                THEN ResolveById(c.rows, tables, c.kind)
                ELSE ResolveEach(c.rows, tables)
       IN
       done' = [NoDone EXCEPT !.op = c.kind, !.err = r.err, !.items = r.items,
                              !.missing = \E x \in c.rows : ~HasFood(tables, x.food_id),
                              !.open = txOpen, !.flag = inTransaction]
    /\ pc' = [pc EXCEPT ![p] = "idle"]
    /\ ctx' = [ctx EXCEPT ![p].kind = "none", ![p].arg = "none", ![p].rows = {}]
    /\ UNCHANGED <<storage, inTransaction, owner, ops>>
    /\ UNCHANGED query

\* ------------------------------------------------- rows with their columns
\* The columns and properties the leaf specifications read. "none" stands for
\* an optional property that is undefined and for a column that is NULL.
Categories == {"FRUIT", "DAIRY"}
States == {"SOLID", "LIQUID"}
Brands == {"acme"}
Barcodes == {"4006381333931"}
Locations == {"fridge"}
CalorieValues == 0..2
AmountValues == 0..2

\* A Date: a calendar day at 00:00:00.000 UTC.
Years == {2025, 2026, 2027, 9999, 10000}
Dates == [year : Years, month : {1, 12}, day : {1, 28}]

\* d < e on Date objects: their time values are compared.
DateBefore(d, e) ==
    \/ d.year < e.year
    \/ d.year = e.year /\ d.month < e.month
    \/ d.year = e.year /\ d.month = e.month /\ d.day < e.day

\* Strings are sequences of character codes.
Digits(n, width) == [k \in 1..width |-> 48 + ((n \div (10 ^ (width - k))) % 10)]
\* The value of a string of decimal digits.
RECURSIVE Number(_)
Number(str) ==
    IF str = <<>> THEN 0
    ELSE 10 * Number(SubSeq(str, 1, Len(str) - 1)) + (str[Len(str)] - 48)

\* "T00:00:00.000Z"
Midnight == <<84, 48, 48, 58, 48, 48, 58, 48, 48, 46, 48, 48, 48, 90>>

\* Date.prototype.toISOString: YYYY-MM-DDTHH:mm:ss.sssZ, with the year written
\* as a sign and six digits when it is not within 0..9999.
ToISOString(d) ==
    (IF d.year <= 9999 THEN Digits(d.year, 4) ELSE <<43>> \o Digits(d.year, 6))
    \o <<45>> \o Digits(d.month, 2) \o <<45>> \o Digits(d.day, 2) \o Midnight

\* new Date(isoString)
ParseDate(str) ==
    LET y == IF str[1] = 43 THEN 7 ELSE 4
    IN [year |-> Number(SubSeq(str, IF str[1] = 43 THEN 2 ELSE 1, y)),
        month |-> Number(SubSeq(str, y + 2, y + 3)),
        day |-> Number(SubSeq(str, y + 5, y + 6))]

\* a < b on TEXT values: the bytes are compared (BINARY collation).
TextLess(a, b) ==
    \/ \E k \in 1..Len(a) :
          /\ k <= Len(b) /\ a[k] < b[k]
          /\ \A j \in 1..(k - 1) : a[j] = b[j]
    \/ Len(a) < Len(b) /\ \A j \in 1..Len(a) : a[j] = b[j]

\* Food entities and PantryItem entities, by the properties the
\* specifications read.
Foods ==
    [id : FoodIds, category : Categories, state : States, calories : CalorieValues,
     brand : Brands \cup {"none"}, barcode : Barcodes \cup {"none"}]
PantryItems ==
    [id : ItemIds, foodId : FoodIds, amount : AmountValues, expiration : Dates,
     location : Locations \cup {"none"}]

\* FoodMapper.toPersistence and toDomain
FoodToPersistence(food) ==
    [id |-> food.id, category |-> food.category, state |-> food.state,
     macronutrients_calories |-> food.calories,
     brand |-> food.brand, barcode |-> food.barcode]
FoodToDomain(row) ==
    [id |-> row.id, category |-> row.category, state |-> row.state,
     calories |-> row.macronutrients_calories,
     brand |-> row.brand, barcode |-> row.barcode]

\* PantryItemMapper.toPersistence and toDomain
PantryItemToPersistence(item) ==
    [id |-> item.id, food_id |-> item.foodId, quantity_amount |-> item.amount,
     expiration_date |-> ToISOString(item.expiration), location |-> item.location]
PantryItemToDomain(row) ==
    [id |-> row.id, foodId |-> row.food_id, amount |-> row.quantity_amount,
     expiration |-> ParseDate(row.expiration_date), location |-> row.location]

\* ------------------------------------------------------ leaf specifications
\* A specification is its factory's name and its argument: a string (arg), a
\* number (num), or neither.
FoodSpecs ==
    [type : {"byId"}, arg : FoodIds, num : {0}]
    \cup [type : {"byCategory"}, arg : Categories, num : {0}]
    \cup [type : {"byState"}, arg : States, num : {0}]
    \cup [type : {"byBrand"}, arg : Brands, num : {0}]
    \cup [type : {"byBarcode"}, arg : Barcodes, num : {0}]
    \cup [type : {"withMinCalories", "withMaxCalories"}, arg : {"none"},
          num : CalorieValues]
PantryItemSpecs ==
    [type : {"byId"}, arg : ItemIds, num : {0}]
    \cup [type : {"byFoodId"}, arg : FoodIds, num : {0}]
    \cup [type : {"lowQuantity"}, arg : {"none"}, num : AmountValues]
    \cup [type : {"byLocation"}, arg : Locations, num : {0}]
    \cup [type : {"empty", "expired", "notExpired"}, arg : {"none"}, num : {0}]

\* Food*Specification.isSatisfiedBy
FoodIsSatisfiedBy(spec, food) ==
    CASE spec.type = "byId" -> food.id = spec.arg
      [] spec.type = "byCategory" -> food.category = spec.arg
      [] spec.type = "byState" -> food.state = spec.arg
      [] spec.type = "byBrand" -> food.brand = spec.arg
      [] spec.type = "byBarcode" -> food.barcode = spec.arg
      [] spec.type = "withMinCalories" -> food.calories >= spec.num
      [] spec.type = "withMaxCalories" -> food.calories <= spec.num

\* PantryItem*Specification.isSatisfiedBy, evaluated when the clock reads now
PantryItemIsSatisfiedBy(spec, item, now) ==
    CASE spec.type = "byId" -> item.id = spec.arg
      [] spec.type = "byFoodId" -> item.foodId = spec.arg
      [] spec.type = "lowQuantity" -> item.amount <= spec.num
      [] spec.type = "byLocation" -> item.location = spec.arg
      [] spec.type = "empty" -> item.amount = 0
      [] spec.type = "expired" -> DateBefore(item.expiration, now)
      [] spec.type = "notExpired" -> ~DateBefore(item.expiration, now)

\* column = value in a WHERE clause: not true of a NULL column.
SqlEquals(column, value) == column # "none" /\ column = value

\* Food*Specification.toWhereClause, evaluated on a row of foods
FoodWhere(spec, row) ==
    CASE spec.type = "byId" -> SqlEquals(row.id, spec.arg)
      [] spec.type = "byCategory" -> SqlEquals(row.category, spec.arg)
      [] spec.type = "byState" -> SqlEquals(row.state, spec.arg)
      [] spec.type = "byBrand" -> SqlEquals(row.brand, spec.arg)
      [] spec.type = "byBarcode" -> SqlEquals(row.barcode, spec.arg)
      [] spec.type = "withMinCalories" -> row.macronutrients_calories >= spec.num
      [] spec.type = "withMaxCalories" -> row.macronutrients_calories <= spec.num

\* PantryItem*Specification.toWhereClause, built when the clock reads now
\* (referenceDate is new Date().toISOString()), evaluated on a row of
\* pantry_items.
PantryItemWhere(spec, row, now) ==
    LET referenceDate == ToISOString(now) IN
    CASE spec.type = "byId" -> SqlEquals(row.id, spec.arg)
      [] spec.type = "byFoodId" -> SqlEquals(row.food_id, spec.arg)
      [] spec.type = "lowQuantity" -> row.quantity_amount <= spec.num
      [] spec.type = "byLocation" -> SqlEquals(row.location, spec.arg)
      [] spec.type = "empty" -> row.quantity_amount = 0
      [] spec.type = "expired" -> TextLess(row.expiration_date, referenceDate)
      [] spec.type = "notExpired" -> ~TextLess(row.expiration_date, referenceDate)

\* --------------------------------------------------------------- find and count
\* The readings of the clock when a query runs.
Nows == {d \in Dates : d.year = 2026}

unitOfWork == <<tables, txOpen, snap, inTransaction, owner, pc, ctx, done, ops>>

Stored(table, row) ==
    [phase |-> "stored", table |-> table, row |-> row, op |-> "none",
     spec |-> [type |-> "none", arg |-> "none", num |-> 0],
     now |-> [year |-> 0, month |-> 0, day |-> 0], found |-> {}, count |-> 0]

\* FoodRepository.save(food)
SaveFood(food) ==
    /\ query.phase = "empty"
    /\ query' = Stored("foods", FoodToPersistence(food))
    /\ UNCHANGED unitOfWork

\* PantryItemRepository.save(item), the item's Food being stored
SavePantryItem(item) ==
    /\ query.phase = "empty"
    /\ query' = Stored("pantry_items", PantryItemToPersistence(item))
    /\ UNCHANGED unitOfWork

SpecsOn(table) == IF table = "foods" THEN FoodSpecs ELSE PantryItemSpecs

\* The stored row is selected by WHERE <spec.toWhereClause()>.
Selects(spec, now) ==
    IF query.table = "foods" THEN FoodWhere(spec, query.row)
    ELSE PantryItemWhere(spec, query.row, now)

\* The entity a repository builds from the stored row.
StoredEntity ==
    IF query.table = "foods" THEN FoodToDomain(query.row)
    ELSE PantryItemToDomain(query.row)

\* repository.find(spec): the selected rows, mapped to entities
Find(spec, now) ==
    /\ query.phase = "stored" /\ spec \in SpecsOn(query.table)
    /\ query' = [query EXCEPT !.phase = "queried", !.op = "find", !.spec = spec,
                              !.now = now,
                              !.found = IF Selects(spec, now) THEN {StoredEntity} ELSE {}]
    /\ UNCHANGED unitOfWork

\* repository.count(spec): SELECT COUNT(*)
Count(spec, now) ==
    /\ query.phase = "stored" /\ spec \in SpecsOn(query.table)
    /\ query' = [query EXCEPT !.phase = "queried", !.op = "count", !.spec = spec,
                              !.now = now,
                              !.count = IF Selects(spec, now) THEN 1 ELSE 0]
    /\ UNCHANGED unitOfWork

\* ---------------------------------------------------------------- expiring soon
\* Time is counted in hours. MS_PER_DAY is one day in that unit.
HoursPerDay == 24

\* Instants of January 2026, as hours since 2026-01-01T00:00:00.000Z.
Instants == {12 * k : k \in 0..8}
\* thresholdDays
Thresholds == 0..2

\* Date.prototype.toISOString for an instant of January 2026
InstantToISOString(h) ==
    Digits(2026, 4) \o <<45>> \o Digits(1, 2) \o <<45>>
    \o Digits((h \div HoursPerDay) + 1, 2) \o <<84>> \o Digits(h % HoursPerDay, 2)
    \o <<58, 48, 48, 58, 48, 48, 46, 48, 48, 48, 90>>

\* new Date(isoString).getTime() for an instant of January 2026
ParseInstant(str) ==
    (Number(SubSeq(str, 9, 10)) - 1) * HoursPerDay + Number(SubSeq(str, 12, 13))

\* Math.ceil(a / b) for b > 0. Math.ceil gives -0 for -1 < a / b <= 0, and
\* -0 >= 0 is true, as for 0.
Ceil(a, b) == 0 - ((0 - a) \div b)

\* ExpirationDate.isExpired(referenceDate)
IsExpired(date, referenceDate) == date < referenceDate

\* ExpirationDate.daysUntilExpiration(referenceDate)
DaysUntilExpiration(date, referenceDate) == Ceil(date - referenceDate, HoursPerDay)

\* ExpirationDate.isExpiringSoon(thresholdDays, referenceDate)
IsExpiringSoon(date, thresholdDays, referenceDate) ==
    LET daysLeft == DaysUntilExpiration(date, referenceDate)
    IN daysLeft >= 0 /\ daysLeft <= thresholdDays

\* PantryItemExpiringSpecification.toWhereClause, built when the clock reads
\* now, evaluated on a row of pantry_items:
\* expiration_date >= :referenceDate AND expiration_date <= :thresholdDate
ExpiringWhere(thresholdDays, row, now) ==
    LET referenceDate == InstantToISOString(now)
        thresholdDate == InstantToISOString(now + thresholdDays * HoursPerDay)
    IN /\ ~TextLess(row.expiration_date, referenceDate)
       /\ ~TextLess(thresholdDate, row.expiration_date)

\* PantryItemRepository.save of an item expiring at date
SaveExpiring(date) ==
    /\ query.phase = "empty"
    /\ query' = Stored("pantry_items",
                       [id |-> "p1", food_id |-> "f1", quantity_amount |-> 1,
                        expiration_date |-> InstantToISOString(date),
                        location |-> "none"])
    /\ UNCHANGED unitOfWork

\* The result of a query on the stored expiring item.
Expiring(op, thresholdDays, now, found, count, expired, soon) ==
    [phase |-> "queried", table |-> "pantry_items", row |-> query.row, op |-> op,
     spec |-> [type |-> "expiring", arg |-> "none", num |-> thresholdDays],
     now |-> now, found |-> found, count |-> count, expired |-> expired, soon |-> soon]

\* find(PantryItemSpecifications.expiring(thresholdDays)) while the clock reads now
FindExpiring(thresholdDays, now) ==
    /\ query.phase = "stored"
    /\ LET hit == ExpiringWhere(thresholdDays, query.row, now)
           date == ParseInstant(query.row.expiration_date)
       IN query' = Expiring("find", thresholdDays, now,
                            IF hit THEN {query.row.id} ELSE {}, IF hit THEN 1 ELSE 0,
                            IsExpired(date, now), IsExpiringSoon(date, thresholdDays, now))
    /\ UNCHANGED unitOfWork

\* item.isExpired() and item.isExpiringSoon(thresholdDays) on the stored
\* item, reloaded, while the clock reads now
CheckExpiring(thresholdDays, now) ==
    /\ query.phase = "stored"
    /\ LET date == ParseInstant(query.row.expiration_date)
       IN query' = Expiring("isExpiringSoon", thresholdDays, now, {}, 0,
                            IsExpired(date, now), IsExpiringSoon(date, thresholdDays, now))
    /\ UNCHANGED unitOfWork

\* ------------------------------------------------------------------ name search
\* Names and search terms are strings over a few characters, as sequences.
NameChars == {"a", "A", "b", "_"}
TermChars == {"a", "A", "_", "%"}
MaxNameLen == 2
Names == UNION {[1..n -> NameChars] : n \in 1..MaxNameLen}
Terms == UNION {[1..n -> TermChars] : n \in 0..MaxNameLen}

\* String.prototype.toLowerCase, and SQL LOWER, on these characters
LowerChar(c) == IF c = "A" THEN "a" ELSE c
ToLowerCase(str) == [k \in 1..Len(str) |-> LowerChar(str[k])]

\* String.prototype.includes
Includes(str, sub) ==
    \E k \in 0..Len(str) :
        k + Len(sub) <= Len(str) /\ SubSeq(str, k + 1, k + Len(sub)) = sub

\* str LIKE pattern: % matches any run of characters, _ any one character,
\* every other character itself, letters compared without case.
RECURSIVE Like(_, _)
Like(str, pattern) ==
    IF pattern = <<>> THEN str = <<>>
    ELSE IF Head(pattern) = "%"
    THEN Like(str, Tail(pattern)) \/ (str # <<>> /\ Like(Tail(str), pattern))
    ELSE /\ str # <<>>
         /\ Head(pattern) = "_" \/ LowerChar(Head(pattern)) = LowerChar(Head(str))
         /\ Like(Tail(str), Tail(pattern))

\* FoodByNameSearchSpecification.isSatisfiedBy
NameSearchIsSatisfiedBy(searchTerm, food) ==
    Includes(ToLowerCase(food.name), ToLowerCase(searchTerm))

\* FoodByNameSearchSpecification.toWhereClause, evaluated on a row of foods:
\* LOWER(name) LIKE :searchTerm, bound to `%${searchTerm.toLowerCase()}%`
NameSearchWhere(searchTerm, row) ==
    Like(ToLowerCase(row.name), <<"%">> \o ToLowerCase(searchTerm) \o <<"%">>)

\* FoodRepository.save of a food called name
SaveNamed(name) ==
    /\ query.phase = "empty"
    /\ query' = Stored("foods", [id |-> "f1", name |-> name])
    /\ UNCHANGED unitOfWork

\* find(FoodSpecifications.byNameSearch(searchTerm))
FindByName(searchTerm) ==
    /\ query.phase = "stored"
    /\ query' = [query EXCEPT !.phase = "queried", !.op = "find",
                              !.spec = [type |-> "byNameSearch", arg |-> searchTerm,
                                        num |-> 0],
                              !.found = IF NameSearchWhere(searchTerm, query.row)
                                        THEN {query.row} ELSE {}]
    /\ UNCHANGED unitOfWork

\* ------------------------------------------------------ composite specifications
\* and(), or() and not() build a composite over their operands. The leaves
\* explored are one per column kind: a nullable text column, a NOT NULL text
\* column and a number.
CompositeLeaves ==
    {[type |-> "byBrand", arg |-> "acme", num |-> 0],
     [type |-> "byCategory", arg |-> "FRUIT", num |-> 0],
     [type |-> "withMinCalories", arg |-> "none", num |-> 1]}

IsLeaf(spec) == spec.type \notin {"and", "or", "not"}

\* The name of a leaf's placeholder
ParamName(type) ==
    CASE type = "byBrand" -> "brand"
      [] type = "byCategory" -> "category"
      [] type = "withMinCalories" -> "minCalories"

\* The keys of toWhereClause().params
RECURSIVE ParamNames(_)
ParamNames(spec) ==
    IF IsLeaf(spec) THEN {ParamName(spec.type)}
    ELSE IF spec.type = "not" THEN ParamNames(spec.spec)
    ELSE ParamNames(spec.left) \cup ParamNames(spec.right)

\* CompositeSpecification.and, or, not over the specifications of S, the
\* operands of and/or having distinct parameter names
Composites(S) ==
    S \cup {[type |-> op, left |-> pair[1], right |-> pair[2]] :
               op \in {"and", "or"},
               pair \in {p \in S \X S : ParamNames(p[1]) \cap ParamNames(p[2]) = {}}}
      \cup {[type |-> "not", spec |-> x] : x \in S}

MaxDepth == 3
RECURSIVE Nested(_)
Nested(depth) == IF depth = 0 THEN CompositeLeaves ELSE Composites(Nested(depth - 1))

\* isSatisfiedBy of leaves and of And/Or/NotSpecification
RECURSIVE IsSatisfiedBy(_, _)
IsSatisfiedBy(spec, food) ==
    IF IsLeaf(spec) THEN FoodIsSatisfiedBy(spec, food)
    ELSE IF spec.type = "and"
    THEN IsSatisfiedBy(spec.left, food) /\ IsSatisfiedBy(spec.right, food)
    ELSE IF spec.type = "or"
    THEN IsSatisfiedBy(spec.left, food) \/ IsSatisfiedBy(spec.right, food)
    ELSE ~IsSatisfiedBy(spec.spec, food)

\* toWhereClause().clause as a sequence of tokens: parentheses, AND, OR, NOT
\* and, for a leaf, its comparison with its placeholder.
Token(kind) == [kind |-> kind, type |-> "none"]
RECURSIVE Clause(_)
Clause(spec) ==
    IF IsLeaf(spec) THEN <<[kind |-> "leaf", type |-> spec.type]>>
    ELSE IF spec.type = "not"
    THEN <<Token("NOT"), Token("(")>> \o Clause(spec.spec) \o <<Token(")")>>
    ELSE <<Token("(")>> \o Clause(spec.left)
             \o <<Token(")"), Token(IF spec.type = "and" THEN "AND" ELSE "OR"),
                  Token("(")>>
             \o Clause(spec.right) \o <<Token(")")>>

\* A merge in which the left operand's value wins.
SpreadKeepsLeft(left, right) ==
    left \o SelectSeq(right, LAMBDA e : \A k \in 1..Len(left) : left[k].name # e.name)
\* toWhereClause().params as the sequence of its entries; { ...left, ...right }
\* keeps the keys of left in place, with the value right gives them, and
\* appends the other keys of right.
Spread(left, right) ==
    LET given(name) == {k \in 1..Len(right) : right[k].name = name}
        kept == [k \in 1..Len(left) |->
                    IF given(left[k].name) = {} THEN left[k]
                    ELSE right[CHOOSE j \in given(left[k].name) : TRUE]]
    IN kept \o SelectSeq(right, LAMBDA e :
                   \A k \in 1..Len(left) : left[k].name # e.name)

RECURSIVE Params(_)
Params(spec) ==
    IF IsLeaf(spec)
    THEN <<[name |-> ParamName(spec.type), arg |-> spec.arg, num |-> spec.num]>>
    ELSE IF spec.type = "not" THEN Params(spec.spec)
    ELSE Spread(Params(spec.left), Params(spec.right))

\* The placeholders of a clause in the order they first appear: the n-th of
\* them is bound to the n-th of Object.values(params).
RECURSIVE Placeholders(_)
Placeholders(clause) ==
    IF clause = <<>> THEN <<>>
    ELSE LET before == Placeholders(SubSeq(clause, 1, Len(clause) - 1))
             last == clause[Len(clause)]
         IN IF last.kind = "leaf"
               /\ \A k \in 1..Len(before) : before[k] # ParamName(last.type)
            THEN Append(before, ParamName(last.type)) ELSE before

Bound(name, clause, values) ==
    LET names == Placeholders(clause)
    IN values[CHOOSE k \in 1..Len(names) : names[k] = name]

\* The truth values of SQL: a comparison with a NULL column is NULL.
SqlBool(b) == IF b THEN "true" ELSE "false"
SqlNot(v) == CASE v = "true" -> "false" [] v = "false" -> "true" [] OTHER -> "null"
SqlAnd(v, w) ==
    IF v = "false" \/ w = "false" THEN "false"
    ELSE IF v = "null" \/ w = "null" THEN "null" ELSE "true"
SqlOr(v, w) ==
    IF v = "true" \/ w = "true" THEN "true"
    ELSE IF v = "null" \/ w = "null" THEN "null" ELSE "false"

\* A leaf's comparison on a row of foods, its placeholder bound to value
Comparison(type, value, row) ==
    CASE type = "byBrand" ->
           IF row.brand = "none" THEN "null" ELSE SqlBool(row.brand = value.arg)
      [] type = "byCategory" -> SqlBool(row.category = value.arg)
      [] type = "withMinCalories" -> SqlBool(row.macronutrients_calories >= value.num)

\* The value of a clause on a row, by SQL's precedence: parentheses, then
\* NOT, then AND, then OR. Each operator gives its value and the tokens left.
RECURSIVE SqlOrExpr(_, _, _), SqlOrRest(_, _, _, _), SqlAndExpr(_, _, _)
RECURSIVE SqlAndRest(_, _, _, _), SqlNotExpr(_, _, _), SqlPrimary(_, _, _)
SqlPrimary(tokens, bind, row) ==
    IF Head(tokens).kind = "("
    THEN LET inner == SqlOrExpr(Tail(tokens), bind, row)
         IN [v |-> inner.v, rest |-> Tail(inner.rest)]
    ELSE [v |-> Comparison(Head(tokens).type, bind[ParamName(Head(tokens).type)], row),
          rest |-> Tail(tokens)]
SqlNotExpr(tokens, bind, row) ==
    IF Head(tokens).kind = "NOT"
    THEN LET inner == SqlNotExpr(Tail(tokens), bind, row)
         IN [v |-> SqlNot(inner.v), rest |-> inner.rest]
    ELSE SqlPrimary(tokens, bind, row)
SqlAndRest(v, tokens, bind, row) ==
    IF tokens # <<>> /\ Head(tokens).kind = "AND"
    THEN LET right == SqlNotExpr(Tail(tokens), bind, row)
         IN SqlAndRest(SqlAnd(v, right.v), right.rest, bind, row)
    ELSE [v |-> v, rest |-> tokens]
SqlAndExpr(tokens, bind, row) ==
    LET left == SqlNotExpr(tokens, bind, row)
    IN SqlAndRest(left.v, left.rest, bind, row)
SqlOrRest(v, tokens, bind, row) ==
    IF tokens # <<>> /\ Head(tokens).kind = "OR"
    THEN LET right == SqlAndExpr(Tail(tokens), bind, row)
         IN SqlOrRest(SqlOr(v, right.v), right.rest, bind, row)
    ELSE [v |-> v, rest |-> tokens]
SqlOrExpr(tokens, bind, row) ==
    LET left == SqlAndExpr(tokens, bind, row)
    IN SqlOrRest(left.v, left.rest, bind, row)

\* WHERE <clause> with Object.values(params) bound: the row is selected when
\* the clause is true, not when it is false or NULL.
CompositeWhere(spec, row) ==
    LET clause == Clause(spec)
        values == Params(spec)
        bind == [name \in ParamNames(spec) |-> Bound(name, clause, values)]
    IN SqlOrExpr(clause, bind, row).v = "true"

\* The foods a composite is evaluated on
CompositeFoods == {food \in Foods : food.id = "f1" /\ food.state = "SOLID"
                                      /\ food.barcode = "none"}

\* FoodRepository.find(spec) of a composite specification
FindComposite(spec) ==
    /\ query.phase = "stored"
    /\ query' = [query EXCEPT !.phase = "queried", !.op = "find", !.spec = spec,
                              !.found = IF CompositeWhere(spec, query.row)
                                        THEN {StoredEntity} ELSE {}]
    /\ UNCHANGED unitOfWork

\* Two instances of one specification type with different values, combined
\* with and() or or(): both render the same placeholder name.
CollidingLeaves ==
    [type : {"byBrand"}, arg : {"acme", "zeta"}, num : {0}]
    \cup [type : {"byCategory"}, arg : Categories, num : {0}]
    \cup [type : {"withMinCalories"}, arg : {"none"}, num : CalorieValues]
Collisions ==
    {[type |-> op, left |-> pair[1], right |-> pair[2]] :
        op \in {"and", "or"},
        pair \in {p \in CollidingLeaves \X CollidingLeaves :
                     p[1].type = p[2].type /\ p[1] # p[2]}}

\* FoodRepository.find(spec) of two colliding specifications
FindCollision(spec) ==
    /\ spec \in Collisions
    /\ FindComposite(spec)

\* ------------------------------------------------ negation over optional columns
\* Specifications on the columns that may be NULL: foods.brand, foods.barcode
\* and pantry_items.location.
OptionalSpecs(table) ==
    IF table = "foods"
    THEN [type : {"byBrand"}, arg : Brands \cup {"zeta"}, num : {0}]
         \cup [type : {"byBarcode"}, arg : Barcodes \cup {"0"}, num : {0}]
    ELSE [type : {"byLocation"}, arg : Locations \cup {"shelf"}, num : {0}]

\* The column a specification compares
OptionalColumn(spec, row) ==
    CASE spec.type = "byBrand" -> row.brand
      [] spec.type = "byBarcode" -> row.barcode
      [] spec.type = "byLocation" -> row.location

\* column = :value on a row: NULL when the column is NULL
OptionalComparison(spec, row) ==
    IF OptionalColumn(spec, row) = "none" THEN "null"
    ELSE SqlBool(OptionalColumn(spec, row) = spec.arg)

\* NotSpecification.toWhereClause: NOT (<clause>), selecting the rows on
\* which it is true
NotWhere(spec, row) == SqlNot(OptionalComparison(spec, row)) = "true"

\* NotSpecification.isSatisfiedBy
NotIsSatisfiedBy(spec, entity) ==
    IF spec.type = "byLocation"
    THEN ~PantryItemIsSatisfiedBy(spec, entity, [year |-> 2026, month |-> 1, day |-> 1])
    ELSE ~FoodIsSatisfiedBy(spec, entity)

\* repository.find(spec.not())
FindNot(spec) ==
    /\ query.phase = "stored" /\ spec \in OptionalSpecs(query.table)
    /\ query' = [query EXCEPT !.phase = "queried", !.op = "find",
                              !.spec = [type |-> "not", spec |-> spec],
                              !.found = IF NotWhere(spec, query.row)
                                        THEN {StoredEntity} ELSE {}]
    /\ UNCHANGED unitOfWork

\* --------------------------------------------------------- ordering and paging
\* A table is the sequence of its rows in the order they were inserted. The
\* rows carry the columns that order and filter a listing.
MaxRows == 3
ListTables == {"foods", "pantry_items"}
\* The id of the n-th entity saved to a table
ListId(table, n) == [table |-> table, n |-> n]
ListNames == {<<97>>, <<98>>}
ListCreated == {InstantToISOString(0), InstantToISOString(12)}
ListRows(table, id) ==
    IF table = "foods" THEN [id : {id}, name : ListNames, category : Categories]
    ELSE [id : {id}, created_at : ListCreated, food_id : FoodIds]
ListSpecs(table) ==
    IF table = "foods" THEN [type : {"byCategory"}, arg : Categories, num : {0}]
    ELSE [type : {"byFoodId"}, arg : FoodIds, num : {0}]
Skips == 0..MaxRows
Takes == 0..MaxRows

\* FoodMapper.toDomain / PantryItemMapper.toDomain on these columns
ListToDomain(table, row) ==
    IF table = "foods" THEN [id |-> row.id, name |-> row.name, category |-> row.category]
    ELSE [id |-> row.id, createdAt |-> row.created_at, foodId |-> row.food_id]
ListEntities(table, rows) == [k \in 1..Len(rows) |-> ListToDomain(table, rows[k])]

\* WHERE <clause> on a row, and isSatisfiedBy on an entity
ListWhere(table, spec, row) ==
    IF table = "foods" THEN FoodWhere(spec, row)
    ELSE PantryItemWhere(spec, row, [year |-> 2026, month |-> 1, day |-> 1])
ListIsSatisfiedBy(table, spec, entity) ==
    IF table = "foods" THEN FoodIsSatisfiedBy(spec, entity)
    ELSE PantryItemIsSatisfiedBy(spec, entity, [year |-> 2026, month |-> 1, day |-> 1])
Matching(table, spec, rows) == SelectSeq(rows, LAMBDA row : ListWhere(table, spec, row))

\* ORDER BY name ASC (foods), ORDER BY created_at DESC (pantry_items): rows
\* with equal keys stay in the order of the scan.
ComesBefore(table, a, b) ==
    IF table = "foods" THEN TextLess(a.name, b.name)
    ELSE TextLess(b.created_at, a.created_at)
RECURSIVE OrderBy(_, _)
OrderBy(table, rows) ==
    IF rows = <<>> THEN <<>>
    ELSE LET sorted == OrderBy(table, SubSeq(rows, 1, Len(rows) - 1))
             last == rows[Len(rows)]
             later == {k \in 1..Len(sorted) : ComesBefore(table, last, sorted[k])}
             at == IF later = {} THEN Len(sorted) + 1
                   ELSE CHOOSE k \in later : \A j \in later : k <= j
         IN SubSeq(sorted, 1, at - 1) \o <<last>> \o SubSeq(sorted, at, Len(sorted))

\* A SELECT without ORDER BY returns its rows in an order SQL leaves open.
Orders(rows) ==
    {[k \in 1..Len(rows) |-> rows[p[k]]] :
        p \in {q \in [1..Len(rows) -> 1..Len(rows)] :
                  \A i, j \in 1..Len(rows) : q[i] = q[j] => i = j}}

\* LIMIT take OFFSET skip, bound from [...params, take, skip]
LimitOffsetSwapped(rows, take, skip) ==
    SubSeq(rows, take + 1, IF take + skip < Len(rows) THEN take + skip ELSE Len(rows))
LimitOffset(rows, take, skip) ==
    SubSeq(rows, skip + 1, IF skip + take < Len(rows) THEN skip + take ELSE Len(rows))

\* repository.findAll()
FindAll(table, rows) == ListEntities(table, OrderBy(table, rows))

\* The items of findWithPagination(spec, skip, take) on these rows
PageItems(table, spec, skip, take, rows) ==
    ListEntities(table, LimitOffset(OrderBy(table, Matching(table, spec, rows)), take, skip))

Listed(table, rows) ==
    [phase |-> "listed", table |-> table, rows |-> rows, op |-> "none",
     spec |-> [type |-> "none", arg |-> "none", num |-> 0],
     skip |-> 0, take |-> 0, items |-> <<>>, total |-> 0, stale |-> FALSE]

\* repository.save(entity) of a new entity: INSERT appends a row. A save that
\* runs between the two statements of findWithPagination is noted.
SaveListed(table) ==
    /\ query.phase \in {"empty", "listed", "counted"}
    /\ query.phase # "empty" => table = query.table /\ Len(query.rows) < MaxRows
    /\ LET rows == IF query.phase = "empty" THEN <<>> ELSE query.rows IN
       \E row \in ListRows(table, ListId(table, Len(rows) + 1)) :
          query' = IF query.phase = "counted"
                   THEN [query EXCEPT !.rows = Append(rows, row), !.stale = TRUE]
                   ELSE Listed(table, Append(rows, row))
    /\ UNCHANGED unitOfWork

\* repository.find(spec): SELECT ... WHERE <clause>, without ORDER BY
FindListed(spec) ==
    /\ query.phase = "listed" /\ spec \in ListSpecs(query.table)
    /\ \E rows \in Orders(Matching(query.table, spec, query.rows)) :
          query' = [query EXCEPT !.phase = "found", !.op = "find", !.spec = spec,
                                 !.items = ListEntities(query.table, rows)]
    /\ UNCHANGED unitOfWork

\* findWithPagination(spec, skip, take), first statement: SELECT COUNT(*)
PageCount(spec, skip, take) ==
    /\ query.phase = "listed" /\ spec \in ListSpecs(query.table)
    /\ query' = [query EXCEPT !.phase = "counted", !.op = "findWithPagination",
                              !.spec = spec, !.skip = skip, !.take = take,
                              !.total = Len(Matching(query.table, spec, query.rows))]
    /\ UNCHANGED unitOfWork

\* findWithPagination, second statement: SELECT ... ORDER BY ... LIMIT ? OFFSET ?
PageSelect ==
    /\ query.phase = "counted"
    /\ query' = [query EXCEPT !.phase = "paged",
                              !.items = PageItems(query.table, query.spec, query.skip,
                                                  query.take, query.rows)]
    /\ UNCHANGED unitOfWork

\* ------------------------------------------------------------- domain entities
\* A number is an integer or NaN. Every comparison with NaN is false and all
\* arithmetic on NaN gives NaN.
NaN == 99
Numbers == {0 - 1, 0, 1, 2, NaN}
Lt(a, b) == a # NaN /\ b # NaN /\ a < b
Le(a, b) == a # NaN /\ b # NaN /\ a <= b
Plus(a, b) == IF a = NaN \/ b = NaN THEN NaN ELSE a + b
Minus(a, b) == IF a = NaN \/ b = NaN THEN NaN ELSE a - b

\* The largest amount an item is filled up to
MaxAmount == 3

\* The outcome of a constructor or a method: the error thrown ("none" when
\* it returns) and the value returned.
Returned(v) == [err |-> "none", v |-> v]
Thrown(err, v) == [err |-> err, v |-> v]

\* The strings of ids and names are sequences of runs: n times the character
\* with code c. String.prototype.length and trim
Run(c, n) == [c |-> c, n |-> n]
RECURSIVE Length(_)
Length(str) == IF str = <<>> THEN 0 ELSE Head(str).n + Length(Tail(str))
RECURSIVE TrimStart(_)
TrimStart(str) == IF str # <<>> /\ Head(str).c = 32 THEN TrimStart(Tail(str)) ELSE str
RECURSIVE TrimEnd(_)
TrimEnd(str) ==
    IF str # <<>> /\ str[Len(str)].c = 32 THEN TrimEnd(SubSeq(str, 1, Len(str) - 1))
    ELSE str
Trim(str) == TrimEnd(TrimStart(str))

\* !s || s.trim().length === 0
Blank(str) == str = <<>> \/ Length(Trim(str)) = 0

\* Quantity: units and types
Units == {"GRAM", "PIECE"}
QuantityTypes == {"BY_WEIGHT", "BY_UNIT"}
IsUnitCompatibleWithType(unit, type) ==
    CASE type = "BY_WEIGHT" -> unit \in {"GRAM", "KILOGRAM"}
      [] type = "BY_VOLUME" -> unit \in {"MILLILITER", "LITER"}
      [] type = "BY_UNIT" -> unit \in {"PIECE", "SERVING"}
      [] OTHER -> FALSE

\* new Quantity(props): validate()
NewQuantity(props) ==
    IF Lt(props.amount, 0) THEN Thrown("Quantity amount cannot be negative", props)
    ELSE IF ~IsUnitCompatibleWithType(props.unit, props.type)
    THEN Thrown("Unit is not compatible with type", props)
    ELSE Returned(props)

\* A subtract that lets the amount go below zero.
QuantitySubtractUnchecked(q, other) ==
    Returned([q EXCEPT !.amount = Minus(q.amount, other.amount)])
\* Quantity.subtract
QuantitySubtract(q, other) ==
    IF q.unit # other.unit
    THEN Thrown("Cannot subtract quantities with different units", q)
    ELSE IF Lt(Minus(q.amount, other.amount), 0)
    THEN Thrown("Cannot subtract: result would be negative", q)
    ELSE NewQuantity([q EXCEPT !.amount = Minus(q.amount, other.amount)])

\* Quantity.add
QuantityAdd(q, other) ==
    IF q.unit # other.unit THEN Thrown("Cannot add quantities with different units", q)
    ELSE NewQuantity([q EXCEPT !.amount = Plus(q.amount, other.amount)])

\* ExpirationDate: a date is a time value in hours, NaN for an Invalid Date.
ExpirationTimes == {0, HoursPerDay, NaN}
ExpirationTypes == {"BEST_BEFORE", "USE_BY"}
NewExpirationDate(props) ==
    IF props.date = NaN THEN Thrown("Invalid expiration date", props) ELSE Returned(props)

\* new PantryItem(props): validate()
NewPantryItem(props) ==
    IF Blank(props.id) THEN Thrown("PantryItem ID is required", props)
    ELSE IF props.food = "none" THEN Thrown("Food reference is required", props)
    ELSE Returned(props)

\* The first error among the parts of a constructor call, or the built
\* entity.
Build(parts, built) ==
    IF \E k \in 1..Len(parts) : parts[k].err # "none"
    THEN Thrown(parts[CHOOSE k \in 1..Len(parts) :
                         /\ parts[k].err # "none"
                         /\ \A j \in 1..(k - 1) : parts[j].err = "none"].err,
                built.v)
    ELSE built

\* PantryItem.create(input) when the clock reads now
PantryItemCreate(input, now) ==
    LET quantity == NewQuantity(input.quantity)
        expiration == NewExpirationDate(input.expiration)
    IN Build(<<quantity, expiration>>,
             NewPantryItem([id |-> input.id, food |-> input.food,
                            quantity |-> quantity.v, expiration |-> expiration.v,
                            purchasedAt |-> input.purchasedAt,
                            location |-> input.location, notes |-> input.notes,
                            createdAt |-> now, updatedAt |-> now]))

\* PantryItem.consume(amount)
PantryItemConsume(item, amount, now) ==
    IF Le(amount, 0) THEN Thrown("Consume amount must be greater than 0", item)
    ELSE LET consumeQuantity == NewQuantity([item.quantity EXCEPT !.amount = amount])
             quantity == QuantitySubtract(item.quantity, consumeQuantity.v)
         IN Build(<<consumeQuantity, quantity>>,
                  NewPantryItem([item EXCEPT !.quantity = quantity.v,
                                             !.updatedAt = now]))

\* PantryItem.addQuantity(amount)
PantryItemAddQuantity(item, amount, now) ==
    IF Le(amount, 0) THEN Thrown("Add amount must be greater than 0", item)
    ELSE LET addQuantity == NewQuantity([item.quantity EXCEPT !.amount = amount])
             quantity == QuantityAdd(item.quantity, addQuantity.v)
         IN Build(<<addQuantity, quantity>>,
                  NewPantryItem([item EXCEPT !.quantity = quantity.v,
                                             !.updatedAt = now]))

\* PantryItem.updateQuantity(quantity)
PantryItemUpdateQuantity(item, props, now) ==
    LET quantity == NewQuantity(props)
    IN Build(<<quantity>>,
             NewPantryItem([item EXCEPT !.quantity = quantity.v, !.updatedAt = now]))

\* PantryItem.updateExpiration(expiration)
PantryItemUpdateExpiration(item, props, now) ==
    LET expiration == NewExpirationDate(props)
    IN Build(<<expiration>>,
             NewPantryItem([item EXCEPT !.expiration = expiration.v, !.updatedAt = now]))

\* PantryItem.updateLocation(location), updateNotes(notes)
PantryItemUpdateLocation(item, location, now) ==
    NewPantryItem([item EXCEPT !.location = location, !.updatedAt = now])
PantryItemUpdateNotes(item, notes, now) ==
    NewPantryItem([item EXCEPT !.notes = notes, !.updatedAt = now])

\* Macronutrients.create(props): validate()
NewMacronutrients(props) ==
    IF Lt(props.calories, 0) THEN Thrown("Calories cannot be negative", props)
    ELSE IF Lt(props.protein, 0) THEN Thrown("Protein cannot be negative", props)
    ELSE IF Lt(props.carbohydrates, 0)
    THEN Thrown("Carbohydrates cannot be negative", props)
    ELSE IF Lt(props.fat, 0) THEN Thrown("Fat cannot be negative", props)
    ELSE Returned(props)

\* Food names may be 200 characters long.
MaxNameLength == 200

\* new Food(props): validate()
NewFood(props) ==
    IF Blank(props.id) THEN Thrown("Food ID is required", props)
    ELSE IF Blank(props.name) THEN Thrown("Food name is required", props)
    ELSE IF Length(props.name) > MaxNameLength
    THEN Thrown("Food name must be 200 characters or less", props)
    ELSE IF Le(props.servingSize, 0)
    THEN Thrown("Serving size must be greater than 0", props)
    ELSE Returned(props)

\* Food.create(input) when the clock reads now
FoodCreate(input, now) ==
    LET macronutrients == NewMacronutrients(input.macronutrients)
    IN Build(<<macronutrients>>,
             NewFood([id |-> input.id, name |-> input.name,
                      description |-> input.description,
                      macronutrients |-> macronutrients.v,
                      servingSize |-> input.servingSize, state |-> input.state,
                      category |-> input.category,
                      defaultQuantityType |-> input.defaultQuantityType,
                      defaultUnit |-> input.defaultUnit,
                      brand |-> input.brand, barcode |-> input.barcode,
                      createdAt |-> now, updatedAt |-> now]))

\* An updateName that stamps createdAt as well.
FoodUpdateNameStampsCreated(food, name, now) ==
    NewFood([food EXCEPT !.name = name, !.createdAt = now, !.updatedAt = now])
\* Food.updateName(name)
FoodUpdateName(food, name, now) ==
    IF Blank(name) THEN Thrown("Food name is required", food)
    ELSE IF Length(name) > MaxNameLength
    THEN Thrown("Food name must be 200 characters or less", food)
    ELSE NewFood([food EXCEPT !.name = name, !.updatedAt = now])

\* Food.updateDescription, updateMacronutrients, updateCategory, updateState
FoodUpdateDescription(food, description, now) ==
    NewFood([food EXCEPT !.description = description, !.updatedAt = now])
FoodUpdateMacronutrients(food, props, now) ==
    LET macronutrients == NewMacronutrients(props)
    IN Build(<<macronutrients>>,
             NewFood([food EXCEPT !.macronutrients = macronutrients.v,
                                  !.updatedAt = now]))
FoodUpdateCategory(food, category, now) ==
    NewFood([food EXCEPT !.category = category, !.updatedAt = now])
FoodUpdateState(food, state, now) ==
    NewFood([food EXCEPT !.state = state, !.updatedAt = now])

\* The inputs of the entity operations
MaxClock == 1
Clock == 0..MaxClock
EntityIds == {<<>>, <<Run(32, 1)>>, <<Run(102, 1), Run(49, 1)>>}
EntityNames ==
    {<<>>, <<Run(32, 2)>>, <<Run(32, 1), Run(97, 1)>>, <<Run(97, MaxNameLength)>>,
     <<Run(97, MaxNameLength + 1)>>}
ServingSizes == {0, 1, NaN}
Optional == {"none", "x"}
QuantityInputs == [amount : Numbers, unit : Units, type : QuantityTypes]
ExpirationInputs == [date : ExpirationTimes, type : ExpirationTypes]
MacroValues == {0 - 1, 0, 1, NaN}
NoMacronutrients == [calories |-> 0, protein |-> 0, carbohydrates |-> 0, fat |-> 0]
MacronutrientsInputs ==
    {[NoMacronutrients EXCEPT ![field] = value] :
        field \in {"calories", "protein", "carbohydrates", "fat"}, value \in MacroValues}
\* An optional Date is the set of its time values: {} when it is undefined.
PantryItemInputs ==
    [id : EntityIds, food : {"none", "f1"}, quantity : QuantityInputs,
     expiration : ExpirationInputs, purchasedAt : {{}}, location : Optional,
     notes : Optional]
FoodInputs ==
    [id : EntityIds, name : EntityNames, description : Optional,
     macronutrients : MacronutrientsInputs, servingSize : ServingSizes,
     state : States, category : Categories,
     defaultQuantityType : {"BY_WEIGHT"}, defaultUnit : {"GRAM"},
     brand : {"none"}, barcode : {"none"}]

\* The caller holds the entity held; its last call was op with the number num
\* (0 when op takes none) and ended with err; receiver is what the object the
\* call was made on reports afterwards.
Holding(type, held, op, num, err, receiver, now) ==
    [phase |-> "held", type |-> type, held |-> held, op |-> op, num |-> num,
     err |-> err, receiver |-> receiver, now |-> now]

\* A factory call: the caller holds the new entity, or the call failed.
Created(type, r, now) ==
    /\ query' = IF r.err = "none"
                THEN Holding(type, r.v, "create", 0, "none", r.v, now)
                ELSE [phase |-> "rejected", type |-> type, err |-> r.err]
    /\ UNCHANGED unitOfWork

CreateFood ==
    \E input \in FoodInputs, now \in Clock :
        /\ query.phase = "empty"
        /\ Created("Food", FoodCreate(input, now), now)
CreatePantryItem ==
    \E input \in PantryItemInputs, now \in Clock :
        /\ query.phase = "empty"
        /\ Created("PantryItem", PantryItemCreate(input, now), now)

\* A mutator call on the held entity: nothing assigns to the receiver's
\* props; the caller goes on with the instance returned, if any.
Called(op, num, r, now) ==
    /\ query' = Holding(query.type, IF r.err = "none" THEN r.v ELSE query.held,
                        op, num, r.err, query.held, now)
    /\ UNCHANGED unitOfWork

HoldsAt(type, now) == query.phase = "held" /\ query.type = type /\ now >= query.now

Consume ==
    \E amount \in Numbers, now \in Clock :
        /\ HoldsAt("PantryItem", now)
        /\ Called("consume", amount, PantryItemConsume(query.held, amount, now), now)
AddQuantity ==
    \E amount \in Numbers, now \in Clock :
        /\ HoldsAt("PantryItem", now)
        /\ Le(Plus(query.held.quantity.amount, amount), MaxAmount) \/ amount = NaN
           \/ Le(amount, 0)
        /\ Called("addQuantity", amount,
                  PantryItemAddQuantity(query.held, amount, now), now)
UpdateQuantity ==
    \E props \in QuantityInputs, now \in Clock :
        /\ HoldsAt("PantryItem", now)
        /\ Called("updateQuantity", props.amount,
                  PantryItemUpdateQuantity(query.held, props, now), now)
UpdateExpiration ==
    \E props \in ExpirationInputs, now \in Clock :
        /\ HoldsAt("PantryItem", now)
        /\ Called("updateExpiration", 0,
                  PantryItemUpdateExpiration(query.held, props, now), now)
UpdateLocation ==
    \E location \in Optional, now \in Clock :
        /\ HoldsAt("PantryItem", now)
        /\ Called("updateLocation", 0,
                  PantryItemUpdateLocation(query.held, location, now), now)
UpdateNotes ==
    \E notes \in Optional, now \in Clock :
        /\ HoldsAt("PantryItem", now)
        /\ Called("updateNotes", 0, PantryItemUpdateNotes(query.held, notes, now), now)
UpdateName ==
    \E name \in EntityNames, now \in Clock :
        /\ HoldsAt("Food", now)
        /\ Called("updateName", 0, FoodUpdateName(query.held, name, now), now)
UpdateDescription ==
    \E description \in Optional, now \in Clock :
        /\ HoldsAt("Food", now)
        /\ Called("updateDescription", 0,
                  FoodUpdateDescription(query.held, description, now), now)
UpdateMacronutrients ==
    \E props \in MacronutrientsInputs, now \in Clock :
        /\ HoldsAt("Food", now)
        /\ Called("updateMacronutrients", 0,
                  FoodUpdateMacronutrients(query.held, props, now), now)
UpdateCategory ==
    \E category \in Categories, now \in Clock :
        /\ HoldsAt("Food", now)
        /\ Called("updateCategory", 0, FoodUpdateCategory(query.held, category, now), now)
UpdateState ==
    \E state \in States, now \in Clock :
        /\ HoldsAt("Food", now)
        /\ Called("updateState", 0, FoodUpdateState(query.held, state, now), now)

\* ---------------------------------------------------------------- mappers
\* Date.prototype.toISOString: a RangeError for an Invalid Date
DateToISOString(t) ==
    IF t = NaN THEN Thrown("RangeError: Invalid time value", <<>>)
    ELSE Returned(InstantToISOString(t))

\* Food.toPersistence
FoodToPersistenceData(food) ==
    LET createdAt == DateToISOString(food.createdAt)
        updatedAt == DateToISOString(food.updatedAt)
    IN Build(<<createdAt, updatedAt>>,
             Returned([id |-> food.id, name |-> food.name,
                       description |-> food.description,
                       macronutrients |-> food.macronutrients,
                       servingSize |-> food.servingSize, state |-> food.state,
                       category |-> food.category,
                       defaultQuantityType |-> food.defaultQuantityType,
                       defaultUnit |-> food.defaultUnit,
                       brand |-> food.brand, barcode |-> food.barcode,
                       createdAt |-> createdAt.v, updatedAt |-> updatedAt.v]))

\* FoodMapper.toPersistence
FoodMapperToPersistence(food) ==
    LET persistenceData == FoodToPersistenceData(food)
        data == persistenceData.v
    IN IF persistenceData.err # "none" THEN persistenceData
       ELSE Returned([id |-> data.id, name |-> data.name,
                       description |-> data.description,
                       macronutrients_calories |-> data.macronutrients.calories,
                       macronutrients_protein |-> data.macronutrients.protein,
                       macronutrients_carbohydrates |-> data.macronutrients.carbohydrates,
                       macronutrients_fat |-> data.macronutrients.fat,
                       serving_size |-> data.servingSize, state |-> data.state,
                       category |-> data.category,
                       default_quantity_type |-> data.defaultQuantityType,
                       default_unit |-> data.defaultUnit,
                       brand |-> data.brand, barcode |-> data.barcode,
                       created_at |-> data.createdAt, updated_at |-> data.updatedAt])

\* Food.fromPersistence
FoodFromPersistence(data) ==
    LET macronutrients == NewMacronutrients(data.macronutrients)
    IN Build(<<macronutrients>>,
             NewFood([id |-> data.id, name |-> data.name,
                      description |-> data.description,
                      macronutrients |-> macronutrients.v,
                      servingSize |-> data.servingSize, state |-> data.state,
                      category |-> data.category,
                      defaultQuantityType |-> data.defaultQuantityType,
                      defaultUnit |-> data.defaultUnit,
                      brand |-> data.brand, barcode |-> data.barcode,
                      createdAt |-> ParseInstant(data.createdAt),
                      updatedAt |-> ParseInstant(data.updatedAt)]))

\* FoodMapper.toDomain
FoodMapperToDomain(row) ==
    FoodFromPersistence(
        [id |-> row.id, name |-> row.name, description |-> row.description,
         macronutrients |-> [calories |-> row.macronutrients_calories,
                             protein |-> row.macronutrients_protein,
                             carbohydrates |-> row.macronutrients_carbohydrates,
                             fat |-> row.macronutrients_fat],
         servingSize |-> row.serving_size, state |-> row.state,
         category |-> row.category,
         defaultQuantityType |-> row.default_quantity_type,
         defaultUnit |-> row.default_unit,
         brand |-> row.brand, barcode |-> row.barcode,
         createdAt |-> row.created_at, updatedAt |-> row.updated_at])

\* PantryItem.toPersistence: purchasedAt?.toISOString()
PantryItemToPersistenceData(item) ==
    LET expiration == DateToISOString(item.expiration.date)
        purchasedAt == {DateToISOString(t) : t \in item.purchasedAt}
        createdAt == DateToISOString(item.createdAt)
        updatedAt == DateToISOString(item.updatedAt)
    IN IF \E r \in purchasedAt : r.err # "none"
       THEN Thrown("RangeError: Invalid time value", <<>>)
       ELSE Build(<<expiration, createdAt, updatedAt>>,
                  Returned([id |-> item.id, foodId |-> item.food,
                            quantity |-> item.quantity,
                            expiration |-> [date |-> expiration.v,
                                            type |-> item.expiration.type],
                            purchasedAt |-> {r.v : r \in purchasedAt},
                            location |-> item.location, notes |-> item.notes,
                            createdAt |-> createdAt.v, updatedAt |-> updatedAt.v]))

\* PantryItemMapper.toPersistence
PantryItemMapperToPersistence(item) ==
    LET persistenceData == PantryItemToPersistenceData(item)
        data == persistenceData.v
    IN IF persistenceData.err # "none" THEN persistenceData
       ELSE Returned([id |-> data.id, food_id |-> data.foodId,
                       quantity_amount |-> data.quantity.amount,
                       quantity_unit |-> data.quantity.unit,
                       quantity_type |-> data.quantity.type,
                       expiration_date |-> data.expiration.date,
                       expiration_type |-> data.expiration.type,
                       purchased_at |-> data.purchasedAt,
                       location |-> data.location, notes |-> data.notes,
                       created_at |-> data.createdAt, updated_at |-> data.updatedAt])

\* PantryItem.fromPersistence
PantryItemFromPersistence(data, food) ==
    LET quantity == NewQuantity(data.quantity)
        expiration == NewExpirationDate([date |-> ParseInstant(data.expiration.date),
                                         type |-> data.expiration.type])
    IN IF FoodIdMismatch([food_id |-> data.foodId], food)
       THEN Thrown("Food ID mismatch: provided food does not match persisted foodId",
                   data)
       ELSE Build(<<quantity, expiration>>,
                  NewPantryItem(
                      [id |-> data.id, food |-> food.id,
                       quantity |-> quantity.v, expiration |-> expiration.v,
                       purchasedAt |-> {ParseInstant(str) : str \in data.purchasedAt},
                       location |-> data.location, notes |-> data.notes,
                       createdAt |-> ParseInstant(data.createdAt),
                       updatedAt |-> ParseInstant(data.updatedAt)]))

\* PantryItemMapper.toDomain
PantryItemMapperToDomain(row, food) ==
    PantryItemFromPersistence(
        [id |-> row.id, foodId |-> row.food_id,
         quantity |-> [amount |-> row.quantity_amount, unit |-> row.quantity_unit,
                       type |-> row.quantity_type],
         expiration |-> [date |-> row.expiration_date, type |-> row.expiration_type],
         purchasedAt |-> row.purchased_at, location |-> row.location,
         notes |-> row.notes, createdAt |-> row.created_at,
         updatedAt |-> row.updated_at],
        food)

\* The entities handed to the mappers
PurchaseTimes == {{}, {0}, {HoursPerDay + 1}, {NaN}}
MapperFoodInputs == {[input EXCEPT !.brand = brand] : input \in FoodInputs,
                                                     brand \in {"none"} \cup Brands}
MapperItemInputs ==
    {[input EXCEPT !.purchasedAt = purchasedAt] :
        input \in {i \in PantryItemInputs : i.quantity.unit = "GRAM"},
        purchasedAt \in PurchaseTimes}

\* toDomain(toPersistence(entity), food): the row, when toPersistence returns
\* one, and the entity rebuilt from it.
Mapped(type, entity, food, row, back) ==
    [phase |-> "mapped", type |-> type, entity |-> entity, food |-> food,
     row |-> row, back |-> back]

RoundTripFood ==
    \E input \in MapperFoodInputs, now \in Clock :
        LET food == FoodCreate(input, now)
            row == FoodMapperToPersistence(food.v)
        IN /\ query.phase = "empty"
           /\ food.err = "none"
           /\ query' = Mapped("Food", food.v, "none", row,
                              IF row.err = "none" THEN FoodMapperToDomain(row.v) ELSE row)
           /\ UNCHANGED unitOfWork

RoundTripPantryItem ==
    \E input \in MapperItemInputs, now \in Clock, food \in FoodIds :
        LET item == PantryItemCreate(input, now)
            row == PantryItemMapperToPersistence(item.v)
        IN /\ query.phase = "empty"
           /\ item.err = "none"
           /\ query' = Mapped("PantryItem", item.v, food, row,
                              IF row.err = "none"
                              THEN PantryItemMapperToDomain(row.v, [id |-> food])
                              ELSE row)
           /\ UNCHANGED unitOfWork

\* ------------------------------------------------- columns and parameters
\* FoodMapper.getColumnList
ColumnList ==
    <<"id", "name", "description", "macronutrients_calories", "macronutrients_protein",
      "macronutrients_carbohydrates", "macronutrients_fat", "serving_size", "state",
      "category", "default_quantity_type", "default_unit", "brand", "barcode",
      "created_at", "updated_at">>

\* FoodMapper.getParameterPlaceholders: '?, ?, ..., ?'
ParameterPlaceholders == [k \in 1..16 |-> "?"]

\* FoodMapper.getInsertParameters
InsertParameters(row) ==
    <<row.id, row.name, row.description, row.macronutrients_calories,
      row.macronutrients_protein, row.macronutrients_carbohydrates,
      row.macronutrients_fat, row.serving_size, row.state, row.category,
      row.default_quantity_type, row.default_unit, row.brand, row.barcode,
      row.created_at, row.updated_at>>

\* FoodMapper.getUpdateParameters: the id comes last, for WHERE id = ?
UpdateParameters(row) ==
    <<row.name, row.description, row.macronutrients_calories,
      row.macronutrients_protein, row.macronutrients_carbohydrates,
      row.macronutrients_fat, row.serving_size, row.state, row.category,
      row.default_quantity_type, row.default_unit, row.brand, row.barcode,
      row.updated_at, row.id>>

\* UPDATE foods SET name = ?, ..., updated_at = ? WHERE id = ?
SetList ==
    <<"name", "description", "macronutrients_calories", "macronutrients_protein",
      "macronutrients_carbohydrates", "macronutrients_fat", "serving_size", "state",
      "category", "default_quantity_type", "default_unit", "brand", "barcode",
      "updated_at">>

\* The columns of foods that may be NULL
Nullable == {"description", "brand", "barcode"}

\* The value a column holds once a parameter is bound to it: undefined is
\* bound as NULL, and a NULL column is read back as null.
ColumnValue(column, value) ==
    IF column \in Nullable /\ value = "none" THEN "null" ELSE value

Position(columns, column) == CHOOSE k \in 1..Len(columns) : columns[k] = column

\* INSERT INTO foods (<columns>) VALUES (<placeholders>) with params: the
\* k-th parameter goes to the k-th placeholder, which is the value of the
\* k-th column.
InsertRow(columns, placeholders, params) ==
    IF Len(placeholders) # Len(columns) \/ Len(params) # Len(placeholders)
    THEN Thrown("DatabaseError", <<>>)
    ELSE Returned([column \in {columns[k] : k \in 1..Len(columns)} |->
                      ColumnValue(column, params[Position(columns, column)])])

\* UPDATE foods SET <columns> WHERE id = ? on the stored row: the k-th
\* parameter is the value of the k-th assignment, the last one the id.
UpdateRow(row, columns, params) ==
    IF Len(params) # Len(columns) + 1 THEN Thrown("DatabaseError", row)
    ELSE IF row.id # params[Len(params)]
    THEN Thrown("Food not found for update", row)
    ELSE Returned([column \in DOMAIN row |->
                      IF \E k \in 1..Len(columns) : columns[k] = column
                      THEN ColumnValue(column, params[Position(columns, column)])
                      ELSE row[column]])

\* The foods written: valid ones, with and without their optional fields
StoredFoodInputs ==
    {[input EXCEPT !.brand = brand, !.barcode = barcode] :
        input \in {i \in FoodInputs :
                     /\ i.servingSize = 1 /\ i.category = "FRUIT"
                     /\ \A field \in DOMAIN i.macronutrients :
                           i.macronutrients[field] \in {0, 1}},
        brand \in {"none"} \cup Brands, barcode \in {"none"} \cup Barcodes}

\* The stored row of the one food, the entity last written, the createdAt of
\* the entity first saved, and what findById returned since.
WrittenRow(op, entity, created, row, found) ==
    [phase |-> "written", op |-> op, entity |-> entity, created |-> created,
     row |-> row, found |-> found]

\* FoodRepository.save(food) for an id not yet stored
SaveRow ==
    \E input \in StoredFoodInputs, now \in Clock :
        LET food == FoodCreate(input, now)
            row == InsertRow(ColumnList, ParameterPlaceholders,
                             InsertParameters(FoodMapperToPersistence(food.v).v))
        IN /\ query.phase = "empty"
           /\ food.err = "none" /\ row.err = "none"
           /\ query' = WrittenRow("save", food.v, food.v.createdAt, row.v, {})
           /\ UNCHANGED unitOfWork

\* FoodRepository.update(food) for the stored id
UpdateStoredRow ==
    \E input \in StoredFoodInputs, now \in Clock :
        LET food == FoodCreate(input, now)
            row == UpdateRow(query.row, SetList,
                             UpdateParameters(FoodMapperToPersistence(food.v).v))
        IN /\ query.phase = "written" /\ query.op = "save" /\ query.found # {}
           /\ food.err = "none" /\ row.err = "none"
           /\ query' = WrittenRow("update", food.v, query.created, row.v, {})
           /\ UNCHANGED unitOfWork

\* FoodRepository.findById(id) of the stored id: SELECT <columns> FROM foods
\* WHERE id = ?, the row mapped by FoodMapper.toDomain
FindStoredRow ==
    /\ query.phase = "written" /\ query.found = {}
    /\ query' = [query EXCEPT !.found = {FoodMapperToDomain(query.row)}]
    /\ UNCHANGED unitOfWork

\* ---------------------------------------------------------------- migrations
\* A database is the set of its tables and the versions recorded in its
\* migrations table. A migration is its version and whether its up() throws.
Versions == {1, 2, 3}
SchemaTables == {"foods", "pantry_items", "migrations"}
Database(schema, ledger) == [schema |-> schema, ledger |-> ledger]
FreshDatabase == Database({}, {})
Databases == {FreshDatabase} \cup {Database(SchemaTables, l) : l \in SUBSET Versions}
MigrationLists ==
    {list \in UNION {[1..n -> [version : Versions, fails : BOOLEAN]] : n \in 0..3} :
        \A j, k \in DOMAIN list : j # k => list[j].version # list[k].version}

\* new Migration001InitialSchema()
InitialSchema == [version |-> 1, fails |-> FALSE]

\* MigrationRunner.getAppliedMigrations: SELECT version FROM migrations
GetAppliedMigrations(db) ==
    IF "migrations" \in db.schema THEN Returned(db.ledger)
    ELSE Thrown("Failed to get rows: no such table: migrations", {})

\* migration.up(): Migration001InitialSchema creates foods, pantry_items and
\* migrations, each IF NOT EXISTS.
Up(migration, db) ==
    IF migration.fails THEN Thrown("up failed", db)
    ELSE Returned([db EXCEPT !.schema =
                      IF migration.version = InitialSchema.version
                      THEN @ \cup SchemaTables ELSE @])

\* MigrationRunner.recordMigration: INSERT INTO migrations (version, ...)
RecordMigration(migration, db) ==
    IF "migrations" \notin db.schema \/ migration.version \in db.ledger
    THEN Thrown("Failed to run statement", db)
    ELSE Returned([db EXCEPT !.ledger = @ \cup {migration.version}])

\* [...migrations].sort((a, b) => a.version - b.version)
RECURSIVE SortByVersion(_)
SortByVersion(migrations) ==
    IF migrations = <<>> THEN <<>>
    ELSE LET first == CHOOSE k \in DOMAIN migrations :
                          \A j \in DOMAIN migrations :
                              \/ migrations[k].version < migrations[j].version
                              \/ migrations[k].version = migrations[j].version /\ k <= j
         IN <<migrations[first]>>
            \o SortByVersion(SelectSeq([j \in 1..(Len(migrations) - 1) |->
                                           migrations[IF j < first THEN j ELSE j + 1]],
                                       LAMBDA m : TRUE))

\* The outcome of a run: the error it rejects with, the database it leaves
\* and the results pushed.
Outcome3(err, db, results) == [err |-> err, db |-> db, results |-> results]
Result(migration, success) == [version |-> migration.version, success |-> success]

\* The for loop of MigrationRunner.run over the sorted migrations
RECURSIVE RunLoop(_, _, _, _)
RunLoop(sortedMigrations, appliedMigrations, db, results) ==
    IF sortedMigrations = <<>> THEN Outcome3("none", db, results)
    ELSE LET migration == Head(sortedMigrations)
             up == Up(migration, db)
             record == RecordMigration(migration, up.v)
         IN IF migration.version \in appliedMigrations
            THEN RunLoop(Tail(sortedMigrations), appliedMigrations, db, results)
            ELSE IF up.err # "none"
            THEN Outcome3("Migration failed", db,
                          Append(results, Result(migration, FALSE)))
            ELSE IF record.err # "none"
            THEN Outcome3("Migration failed", up.v,
                          Append(results, Result(migration, FALSE)))
            ELSE RunLoop(Tail(sortedMigrations), appliedMigrations, record.v,
                         Append(results, Result(migration, TRUE)))

\* MigrationRunner.run(migrations)
MigrationRun(migrations, db) ==
    LET appliedMigrations == GetAppliedMigrations(db)
    IN IF appliedMigrations.err # "none" THEN Outcome3(appliedMigrations.err, db, <<>>)
       ELSE RunLoop(SortByVersion(migrations), appliedMigrations.v, db, <<>>)

\* The database the first call finds, or the one the last call left, and
\* DatabaseInitializer.initialized
BeforeRun(db) ==
    \/ query.phase = "empty" /\ db \in Databases
    \/ query.phase = "migrated" /\ db = query.db
WasInitialized == query.phase = "migrated" /\ query.initialized

\* What a call did: the database before it and after it, the migrations
\* handed to run, the results and the error.
Migrated(op, before, list, r, initialized) ==
    [phase |-> IF query.phase = "empty" THEN "migrated" ELSE "again", op |-> op,
     before |-> before, list |-> list, db |-> r.db, results |-> r.results,
     err |-> r.err, initialized |-> initialized]

\* DatabaseInitializer.initialize()
Initialize ==
    \E db \in Databases :
        LET r == IF WasInitialized THEN Outcome3("none", db, <<>>)
                 ELSE MigrationRun(<<InitialSchema>>, db)
        IN /\ BeforeRun(db)
           /\ query' = Migrated("initialize", db, <<InitialSchema>>, r,
                                WasInitialized \/ r.err = "none")
           /\ UNCHANGED unitOfWork

\* MigrationRunner.run(migrations)
RunMigrations ==
    \E db \in Databases, list \in MigrationLists :
        /\ BeforeRun(db)
        /\ query' = Migrated("run", db, list, MigrationRun(list, db), WasInitialized)
        /\ UNCHANGED unitOfWork

\* ------------------------------------------------------------------------ Next
Next ==
    \E p \in Procs :
        \/ ExecuteCall(p)
        \/ ExecuteBegun(p)
        \/ \E c \in Writes : CallbackWrite(p, c)
        \/ CallbackFailed(p)
        \/ CallbackThrow(p)
        \/ CallbackNested(p)
        \/ CallbackReturn(p)
        \/ ExecuteCommitted(p)
        \/ ExecuteRolledBack(p)
        \/ BeginCall(p)
        \/ BeginDone(p)
        \/ CommitCall(p)
        \/ CommitDone(p)
        \/ RollbackCall(p)
        \/ RollbackDone(p)
        \/ \E c \in Writes : RepositoryWrite(p, c)

Spec == Init /\ [][Next]_vars

\* Reads of pantry items interleaved with repository writes.
ReadNext ==
    \E p \in Procs :
        \/ \E c \in Writes : RepositoryWrite(p, c)
        \/ \E kind \in ReadKinds : \E arg \in ReadArgs(kind) : ReadCall(p, kind, arg)
        \/ ReadResolve(p)
        \/ \E kind \in FoodLookups : \E id \in FoodIds : FoodLookup(p, kind, id)

SpecRead == Init /\ [][ReadNext]_vars

\* One entity is saved and then queried with a leaf specification.
FindNext ==
    \/ \E food \in Foods : SaveFood(food)
    \/ \E item \in PantryItems : SavePantryItem(item)
    \/ \E spec \in FoodSpecs \cup PantryItemSpecs : \E now \in Nows : Find(spec, now)
    \/ \E spec \in FoodSpecs \cup PantryItemSpecs : \E now \in Nows : Count(spec, now)

InitFind == Init /\ tables = EmptyTables

\* One item is saved and then tested for expiring soon, in storage and in memory.
ExpiringNext ==
    \/ \E date \in Instants : SaveExpiring(date)
    \/ \E t \in Thresholds : \E now \in Instants : FindExpiring(t, now)
    \/ \E t \in Thresholds : \E now \in Instants : CheckExpiring(t, now)

SpecExpiring == InitFind /\ [][ExpiringNext]_vars

\* One food is saved and then searched for by name.
NameSearchNext ==
    \/ \E name \in Names : SaveNamed(name)
    \/ \E searchTerm \in Terms : FindByName(searchTerm)

SpecNameSearch == InitFind /\ [][NameSearchNext]_vars

\* One food is saved and then looked for with a composite specification.
CompositeNext ==
    \/ \E food \in CompositeFoods : SaveFood(food)
    \/ \E spec \in Nested(MaxDepth) : FindComposite(spec)

SpecComposite == InitFind /\ [][CompositeNext]_vars

\* One entity is saved and then looked for with a negated specification.
NegationNext ==
    \/ \E food \in Foods : SaveFood(food)
    \/ \E item \in {i \in PantryItems : i.expiration.year = 2026} : SavePantryItem(item)
    \/ \E spec \in OptionalSpecs("foods") \cup OptionalSpecs("pantry_items") : FindNot(spec)

SpecNegation == InitFind /\ [][NegationNext]_vars

\* One food is saved and then looked for with two colliding specifications.
CollisionNext ==
    \/ \E food \in CompositeFoods : SaveFood(food)
    \/ \E spec \in Collisions : FindCollision(spec)

SpecCollision == InitFind /\ [][CollisionNext]_vars

\* Entities are saved, then listed with find or with findWithPagination.
ListNext ==
    \/ \E table \in ListTables : SaveListed(table)
    \/ \E spec \in ListSpecs("foods") \cup ListSpecs("pantry_items") : FindListed(spec)
    \/ \E spec \in ListSpecs("foods") \cup ListSpecs("pantry_items"),
          skip \in Skips, take \in Takes : PageCount(spec, skip, take)
    \/ PageSelect

SpecList == InitFind /\ [][ListNext]_vars

\* An entity is created and then changed by its mutators.
EntityNext ==
    \/ CreateFood
    \/ CreatePantryItem
    \/ Consume
    \/ AddQuantity
    \/ UpdateQuantity
    \/ UpdateExpiration
    \/ UpdateLocation
    \/ UpdateNotes
    \/ UpdateName
    \/ UpdateDescription
    \/ UpdateMacronutrients
    \/ UpdateCategory
    \/ UpdateState

SpecEntity == InitFind /\ [][EntityNext]_vars

MapperNext ==
    \/ RoundTripFood
    \/ RoundTripPantryItem

SpecMapper == InitFind /\ [][MapperNext]_vars

\* A database is initialized, or migrated with a list of migrations, twice.
MigrationNext ==
    \/ Initialize
    \/ RunMigrations

SpecMigration == InitFind /\ [][MigrationNext]_vars

\* A food is saved, read, updated and read again.
ColumnsNext ==
    \/ SaveRow
    \/ UpdateStoredRow
    \/ FindStoredRow

SpecColumns == InitFind /\ [][ColumnsNext]_vars

SpecFind == InitFind /\ [][FindNext]_vars

\* ================================================================== properties
\* The errors a callback can fail with: its own throw, or a rejected write.
CallbackErrors == {"Callback error", "DatabaseError", "NotFound"}

\* C1: transactional atomicity. When execute has rejected because its callback
\* threw, or a write in it failed, after N >= 1 successful writes, none of
\* those writes is visible, and the contents of both tables equal their
\* contents from before execute was called (up to rows another caller has
\* written since the rollback was sent).
C1_Atomicity ==
    (done.op = "execute" /\ done.err # "none" /\ done.cause \in CallbackErrors
        /\ done.n >= 1)
    => /\ done.visible = {}
       /\ "ROLLBACK" \in done.sent
       /\ ~done.foreign => done.changed = {}

\* A callback saved rows and then a write of it failed: the rows are gone.
C1_Witness ==
    /\ done.op = "execute" /\ done.err = "DatabaseError" /\ done.cause = "DatabaseError"
    /\ done.n >= 1 /\ done.lost # {} /\ done.changed = {} /\ ~done.foreign

\* The errors that end an execute whose transaction was begun.
FailuresAfterBegin == CallbackErrors \cup {"Failed to commit transaction"}

\* C2: guaranteed rollback. Whenever execute ends with an error after its
\* transaction was begun (the callback threw, or the storage commit failed), a
\* ROLLBACK has been sent to storage before the error reaches the caller, no
\* storage transaction is left open and the unit of work is idle.
C2_GuaranteedRollback ==
    (done.op = "execute" /\ done.err # "none" /\ done.cause \in FailuresAfterBegin)
    => "ROLLBACK" \in done.sent /\ ~done.open /\ ~done.flag

\* C3: the original error is rethrown. When execute fails, the error the
\* caller receives is the error that caused the failure (the callback's, or
\* the storage commit's), never another one raised while rolling back.
C3_OriginalErrorRethrown ==
    (done.op = "execute" /\ done.err # "none" /\ done.cause \in FailuresAfterBegin)
    => done.err = done.cause

\* C4: commit on success. When execute has resolved it returns the callback's
\* result, every write of the callback is in storage, no transaction is open
\* and the unit of work is idle; after a manual commit the writes made since
\* beginTransaction are all in storage, and after a manual rollback none is.
C4_CommitOnSuccess ==
    /\ (done.op = "execute" /\ done.err = "none")
       => /\ done.result = "callback result" /\ done.lost = {}
          /\ done.sent = {"BEGIN", "COMMIT"} /\ ~done.open /\ ~done.flag
    /\ (done.op = "commit" /\ done.err = "none")
       => done.lost = {} /\ ~done.open /\ ~done.flag
    /\ (done.op = "rollback" /\ done.err = "none")
       => /\ done.visible = {} /\ ~done.open /\ ~done.flag
          /\ ~done.foreign => done.changed = {}

\* An execute resolved after two writes that both show in storage.
C4_Witness ==
    /\ done.op = "execute" /\ done.err = "none" /\ done.n >= 2
    /\ Cardinality(done.visible) >= 2 /\ done.visible \subseteq done.changed

\* The awaits at which a call waits for the storage's answer to BEGIN.
BeginAwaits ==
    {"execute: await db.beginTransaction", "beginTransaction: await db.beginTransaction"}

\* C5: a single open transaction under concurrency. Of two execute or
\* beginTransaction calls made without awaiting each other, BEGIN is never
\* sent while a transaction of this instance is open or being opened, and the
\* losing call is rejected with 'Transaction already in progress', also when
\* it arrives while the first call's BEGIN is still pending.
C5_SingleTransaction ==
    /\ Cardinality({p \in Procs : pc[p] \in BeginAwaits}) <= 1
    /\ \A p \in Procs : pc[p] \in BeginAwaits => ctx[p].res = "ok"
    /\ (done.op \in {"execute", "beginTransaction"}
          /\ done.cause \in {"Transaction already in progress",
                              "Failed to begin transaction"})
       => done.err = "Transaction already in progress" /\ done.sent = {}

\* Where a caller is while its execute callback runs.
InCallback == {"execute: callback", "execute: callback write failed"}

\* C6: nested execute is rejected. An execute called from inside the callback
\* of a running execute fails with 'Transaction already in progress' without
\* anything being sent to storage; the outer transaction stays open with its
\* pending writes intact for as long as the outer callback runs.
C6_NestedRejected ==
    /\ done.op = "nested execute"
       => /\ done.err = "Transaction already in progress" /\ done.sent = {}
          /\ done.open /\ done.flag /\ done.lost = {}
    /\ \A p \in Procs : pc[p] \in InCallback
       => /\ txOpen /\ inTransaction /\ snap = ctx[p].pre
          /\ Lost(ctx[p].eff, tables) = {}

\* A nested execute was rejected while a write of the outer callback is pending.
C6_Witness ==
    /\ done.op = "nested execute" /\ done.err = "Transaction already in progress"
    /\ done.n >= 1 /\ done.visible # {}
    /\ \E p \in Procs : pc[p] = "execute: callback" /\ Visible(ctx[p].eff, snap, tables) # {}

\* Nothing but the outcome of the call and the operation count changes, and
\* nothing is sent to storage.
Untouched ==
    /\ UNCHANGED <<tables, txOpen, snap, inTransaction, owner, pc, ctx>>
    /\ done'.sent = {}

\* C7: out-of-sequence transaction calls. beginTransaction while in-transaction
\* fails with 'Transaction already in progress', commit or rollback while idle
\* fails with 'No transaction in progress'; in each case the unit-of-work
\* state and the storage (pending writes included) are unchanged and nothing
\* is sent to storage.
C7_OutOfSequence ==
    [][\A p \in Procs :
        /\ (BeginCall(p) /\ inTransaction)
           => done'.op = "beginTransaction"
              /\ done'.err = "Transaction already in progress" /\ Untouched
        /\ (CommitCall(p) /\ ~inTransaction)
           => done'.op = "commit"
              /\ done'.err = "No transaction in progress" /\ Untouched
        /\ (RollbackCall(p) /\ ~inTransaction)
           => done'.op = "rollback"
              /\ done'.err = "No transaction in progress" /\ Untouched]_vars

\* A second beginTransaction was refused while the first has a write pending.
C7_Witness ==
    /\ done.op = "beginTransaction" /\ done.err = "Transaction already in progress"
    /\ done.sent = {} /\ txOpen /\ inTransaction /\ tables # snap

\* C8: referential resolution on reads. Every PantryItem a read returns
\* carries a Food whose id is the row's stored food_id; if the Food of any
\* selected row is absent when it is looked up, the read fails and returns
\* no partial list.
C8_ReferentialResolution ==
    done.op \in ReadKinds
    => /\ \A it \in done.items : it.food = it.food_id
       /\ done.missing => done.err # "none" /\ done.items = {}
       /\ done.err # "none" => done.items = {}

\* A read whose selected row lost its Food before the lookup, and failed.
C8_Witness ==
    done.op \in ReadKinds /\ done.missing /\ done.err = "Food not found"

\* A stored pantry item references a stored food.
ReferencesHold(t) ==
    \A i \in ItemIds : HasItem(t, i) => HasFood(t, t.pantry[i].food_id)

\* The step is write c, issued inside or outside an execute callback.
IsWrite(c) == \E p \in Procs : RepositoryWrite(p, c) \/ CallbackWrite(p, c)

\* C9: referential integrity of storage. After any sequence of repository
\* operations every stored pantry item references a stored food; deleting a
\* food removes every pantry item of that food, and deleteByFoodId(f) removes
\* exactly the pantry items of food f and no other row.
C9_ReferentialIntegrity ==
    /\ [](ReferencesHold(tables) /\ (txOpen => ReferencesHold(snap)))
    /\ [][\A f \in FoodIds :
            /\ IsWrite([op |-> "pantryItems.deleteByFoodId", f |-> f])
               => /\ tables'.foods = tables.foods
                  /\ \A i \in ItemIds :
                       tables'.pantry[i] = IF tables.pantry[i].food_id = f
                                           THEN NoRow ELSE tables.pantry[i]
            /\ IsWrite([op |-> "foods.delete", id |-> f])
               => /\ ~HasFood(tables', f)
                  /\ \A g \in FoodIds \ {f} : tables'.foods[g] = tables.foods[g]
                  /\ \A i \in ItemIds :
                       tables'.pantry[i] = IF tables.pantry[i].food_id = f
                                           THEN NoRow ELSE tables.pantry[i]]_vars

\* A food was deleted and a pantry item went with it.
C9_Witness ==
    /\ done.op = "foods.delete" /\ done.err = "none"
    /\ \E i \in ItemIds : <<"pantry_items", i>> \in done.changed /\ ~HasItem(tables, i)

\* spec.isSatisfiedBy(entity) for the query that ran.
Satisfied ==
    IF query.table = "foods" THEN FoodIsSatisfiedBy(query.spec, StoredEntity)
    ELSE PantryItemIsSatisfiedBy(query.spec, StoredEntity, query.now)

\* C10: specification consistency for leaf specifications. A stored Food or
\* PantryItem is returned by repository.find(spec), and counted by
\* count(spec), if and only if spec.isSatisfiedBy(entity) is true, for every
\* leaf specification at a fixed now, threshold boundaries included.
C10_SpecificationConsistency ==
    query.phase = "queried"
    => /\ query.op = "find" => (StoredEntity \in query.found <=> Satisfied)
       /\ query.op = "count" => (query.count = 1 <=> Satisfied)

\* C11: expiring-soon window agreement. expiring(t).isSatisfiedBy(item) at now
\* is true exactly when the item's stored expiration_date satisfies the
\* fragment rendered at the same now.
C11_ExpiringWindowAgreement ==
    (query.phase = "queried" /\ query.op = "find" /\ query.spec.type = "expiring")
    => (query.row.id \in query.found <=> query.soon)

\* C12: expiring soon excludes expired dates. isExpiringSoon(t, ref) is false
\* whenever the date is expired at ref, true when the date is exactly t days
\* after ref, and false when it is t + 1 days after ref.
C12_ExpiringExcludesExpired ==
    (query.phase = "queried" /\ query.op = "isExpiringSoon")
    => LET date == ParseInstant(query.row.expiration_date)
           t == query.spec.num
       IN /\ query.expired => ~query.soon
          /\ date = query.now + t * HoursPerDay => query.soon
          /\ date = query.now + (t + 1) * HoursPerDay => ~query.soon

\* C13: name-search agreement. byNameSearch(term).isSatisfiedBy(food), a
\* case-insensitive literal substring test, is true exactly when the food's
\* row matches LOWER(name) LIKE '%' + lowercase(term) + '%', also for terms
\* that contain '%' or '_'.
C13_NameSearchAgreement ==
    (query.phase = "queried" /\ query.spec.type = "byNameSearch")
    => (query.row \in query.found
        <=> NameSearchIsSatisfiedBy(query.spec.arg, [name |-> query.row.name]))

\* C14: composite correctness. For every composite of and/or/not nested up
\* to three levels deep over leaves with distinct parameter names, the row of
\* an entity is selected by the rendered fragment exactly when the composite's
\* isSatisfiedBy is true of the entity.
C14_CompositeCorrectness ==
    (query.phase = "queried" /\ ~IsLeaf(query.spec))
    => (StoredEntity \in query.found <=> IsSatisfiedBy(query.spec, StoredEntity))

\* The entities of findAll() that satisfy spec, in the order of findAll().
FilteredAll ==
    SelectSeq(FindAll(query.table, query.rows),
              LAMBDA entity : ListIsSatisfiedBy(query.table, query.spec, entity))

\* C15: result ordering. find(spec) returns, as a sequence, findAll() with
\* the entities not matching spec removed: Food by name ascending, PantryItem
\* by creation time descending.
C15_ResultOrdering ==
    query.phase = "found" => query.items = FilteredAll

Smaller(a, b) == IF a < b THEN a ELSE b

\* C16: pagination. On a storage state, findWithPagination(spec, skip, take)
\* returns total = the number of matching rows and items = elements
\* [skip, skip + take) of the full ordered list of matching entities, so
\* items.length = min(take, max(0, total - skip)), and a window with a
\* disjoint index range shares no entity with it.
C16_Pagination ==
    (query.phase = "paged" /\ ~query.stale)
    => /\ query.total = Len(FilteredAll)
       /\ query.items = SubSeq(FilteredAll, query.skip + 1,
                               Smaller(query.skip + query.take, Len(FilteredAll)))
       /\ Len(query.items)
            = Smaller(query.take,
                      IF query.total > query.skip THEN query.total - query.skip ELSE 0)
       /\ \A skip \in Skips, take \in Takes :
             (skip + take <= query.skip \/ query.skip + query.take <= skip)
             => LET other == PageItems(query.table, query.spec, skip, take, query.rows)
                IN \A i \in 1..Len(query.items), j \in 1..Len(other) :
                      query.items[i].id # other[j].id

C16_Witness ==
    /\ query.phase = "paged" /\ ~query.stale
    /\ query.total = 3 /\ query.skip = 1 /\ query.take = 1 /\ Len(query.items) = 1

\* C17: findByFoodId on no matches. When no stored pantry item references f,
\* findByFoodId(f) returns an empty list and no error, also when no Food with
\* id f is stored.
C17_FindByFoodIdNoMatches ==
    [][\A p \in Procs :
          (/\ pc[p] = "read: await rows" /\ pc'[p] = "idle"
           /\ ctx[p].kind = "findByFoodId" /\ ctx[p].rows = {})
          => (done'.err = "none" /\ done'.items = {})]_vars

\* Caller p's write c runs, from its own code or inside its execute callback.
WriteStep(p, c) ==
    \/ done'.op = c.op /\ RepositoryWrite(p, c)
    \/ done' = done /\ CallbackWrite(p, c)

\* The write of this step fails with err, which reaches the code that
\* awaited it: the caller, or the callback of execute.
Fails(p, c, err) ==
    IF pc[p] = "idle" THEN done'.op = c.op /\ done'.err = err
    ELSE ctx'[p].cause = err /\ pc'[p] = "execute: callback write failed"

\* C18: reference violation on save. Saving a PantryItem whose food id has no
\* row in the foods table fails with an error that reaches the caller and
\* leaves both tables unchanged.
C18_ReferenceViolationOnSave ==
    [][\A p \in Procs : \A c \in Writes :
          (c.op = "pantryItems.save" /\ ~HasFood(tables, c.f) /\ WriteStep(p, c))
          => (Fails(p, c, "DatabaseError") /\ tables' = tables)]_vars

\* The only call so far, a save into tables without any food, was refused.
C18_Witness ==
    /\ done.op = "pantryItems.save" /\ done.err = "DatabaseError"
    /\ ops = 1 /\ tables = EmptyTables

\* C19: update of an absent id. update(entity) for an id without a stored
\* row fails with a not-found error and leaves storage unchanged, for foods
\* and for pantry items.
C19_UpdateOfAbsentId ==
    [][\A p \in Procs : \A c \in Writes :
          /\ (c.op = "foods.update" /\ ~HasFood(tables, c.id) /\ WriteStep(p, c))
             => (Fails(p, c, "NotFound") /\ tables' = tables)
          /\ (c.op = "pantryItems.update" /\ ~HasItem(tables, c.id) /\ WriteStep(p, c))
             => (Fails(p, c, "NotFound") /\ tables' = tables)]_vars

\* An update found no row, while the tables hold other rows.
C19_Witness ==
    /\ done.op \in {"foods.update", "pantryItems.update"} /\ done.err = "NotFound"
    /\ done.changed = {} /\ tables # EmptyTables

\* The write of this step completes without error.
Succeeds(p, c) ==
    IF pc[p] = "idle" THEN done'.op = c.op /\ done'.err = "none"
    ELSE pc'[p] = "execute: callback"

\* C20: delete is idempotent. delete(id) for an id without a stored row
\* completes without error and changes nothing; a second delete(id) leaves
\* storage as the first left it; after delete(id), exists(id) is false and
\* findByIdOrNull(id) returns null.
C20_DeleteIdempotent ==
    [][\A p \in Procs : \A c \in Writes :
          /\ (c.op = "foods.delete" /\ WriteStep(p, c))
             => /\ Succeeds(p, c)
                /\ ~HasFood(tables, c.id) => tables' = tables
                /\ FoodDelete(tables', c.id) = Written("none", tables')
                /\ ~FoodExists(tables', c.id)
                /\ FoodFindByIdOrNull(tables', c.id) = {}
          /\ (c.op = "pantryItems.delete" /\ WriteStep(p, c))
             => /\ Succeeds(p, c)
                /\ ~HasItem(tables, c.id) => tables' = tables
                /\ PantryDelete(tables', c.id) = Written("none", tables')
                /\ ~PantryExists(tables', c.id)
                /\ \A rows \in Selected(tables', "findByIdOrNull", c.id) :
                      ResolveById(rows, tables', "findByIdOrNull") = Resolved("none", {})]_vars

\* A delete of an id without a stored row completed, the tables holding
\* other rows.
C20_Witness ==
    /\ done.op \in {"foods.delete", "pantryItems.delete"} /\ done.err = "none"
    /\ done.changed = {} /\ tables # EmptyTables

\* C21: lookup by id. findById(id) fails with a not-found error exactly when
\* no row with that id is stored, and findByIdOrNull(id) returns null without
\* throwing in exactly that case; when the row exists both return the same
\* entity, and exists(id) is true exactly when findByIdOrNull(id) is non-null.
C21_LookupById ==
    [][\A p \in Procs : \A id \in FoodIds :
          /\ FoodLookup(p, "foods.findById", id)
             => /\ done'.err = "Food not found" <=> ~HasFood(tables, id)
                /\ done'.err = "none" <=> HasFood(tables, id)
                /\ HasFood(tables, id)
                   => done'.items = {[id |-> id, v |-> tables.foods[id]]}
                      /\ done'.items = FoodFindByIdOrNull(tables, id)
          /\ FoodLookup(p, "foods.findByIdOrNull", id)
             => /\ done'.err = "none"
                /\ done'.items = {} <=> ~HasFood(tables, id)
                /\ HasFood(tables, id)
                   => done'.items = {[id |-> id, v |-> tables.foods[id]]}
          /\ FoodLookup(p, "foods.exists", id)
             => /\ done'.err = "none"
                /\ done'.result = "true" <=> FoodFindByIdOrNull(tables, id) # {}]_vars

\* findById of an id without a row failed while the table holds another food.
C21_Witness ==
    /\ done.op = "foods.findById" /\ done.err = "Food not found"
    /\ \E f \in FoodIds : HasFood(tables, f)

\* A mutator was called on the entity the caller held.
MutatorStep == query.phase = "held" /\ query'.phase = "held" /\ query' # query

\* C22: consume. For a PantryItem with amount a, consume(x) with 0 < x <= a
\* returns a new item with amount a - x, unit and type the same; consume(x)
\* with x <= 0 or x > a fails with an error; in every case the receiver still
\* reports amount a afterwards.
C22_Consume ==
    [][(MutatorStep /\ query'.op = "consume")
       => LET a == query.held.quantity.amount
              x == query'.num
          IN /\ (Lt(0, x) /\ Le(x, a))
                => /\ query'.err = "none"
                   /\ query'.held.quantity = [query.held.quantity EXCEPT !.amount = a - x]
             /\ (Le(x, 0) \/ Lt(a, x)) => query'.err # "none" /\ query'.held = query.held
             /\ query'.receiver.quantity.amount = a]_vars

\* consume(1) on an item with amount 3 returned an item with amount 2.
C22_Witness ==
    /\ query.phase = "held" /\ query.op = "consume" /\ query.err = "none"
    /\ query.num = 1 /\ query.receiver.quantity.amount = 3
    /\ query.held.quantity.amount = 2

\* The invariants of a Food and of a PantryItem
FoodInvariants(food) ==
    /\ Length(food.id) > 0
    /\ Length(food.name) > 0 /\ Length(food.name) <= MaxNameLength
    /\ Lt(0, food.servingSize)
    /\ \A field \in {"calories", "protein", "carbohydrates", "fat"} :
          Le(0, food.macronutrients[field])
PantryItemInvariants(item) ==
    /\ Length(item.id) > 0
    /\ Le(0, item.quantity.amount)
    /\ IsUnitCompatibleWithType(item.quantity.unit, item.quantity.type)

\* C23: entity invariants are preserved. A successfully constructed Food or
\* PantryItem, after any sequence of successful mutators, has a non-empty id,
\* a Food name that is non-empty and at most 200 characters long,
\* servingSize > 0, all four macronutrients >= 0, a quantity amount >= 0 and
\* a quantity unit compatible with its type.
C23_EntityInvariants ==
    query.phase = "held"
    => IF query.type = "Food" THEN FoodInvariants(query.held)
       ELSE PantryItemInvariants(query.held)

\* The field a mutator sets
Target(op) ==
    CASE op \in {"consume", "addQuantity", "updateQuantity"} -> "quantity"
      [] op = "updateExpiration" -> "expiration"
      [] op = "updateLocation" -> "location"
      [] op = "updateNotes" -> "notes"
      [] op = "updateName" -> "name"
      [] op = "updateDescription" -> "description"
      [] op = "updateMacronutrients" -> "macronutrients"
      [] op = "updateCategory" -> "category"
      [] op = "updateState" -> "state"

\* C24: mutator frame. Every Food and PantryItem mutator returns a new
\* instance that differs from the receiver only in the targeted field and
\* updatedAt; the new updatedAt is not earlier than the receiver's, and the
\* receiver's own fields are unchanged after the call.
C24_MutatorFrame ==
    [][MutatorStep
       => /\ query'.receiver = query.held
          /\ query'.err = "none"
             => /\ \A field \in DOMAIN query.held \ {Target(query'.op), "updatedAt"} :
                      query'.held[field] = query.held[field]
                /\ query'.held.updatedAt >= query.held.updatedAt]_vars

\* updateName gave a Food with another name at a later time.
C24_Witness ==
    /\ query.phase = "held" /\ query.op = "updateName" /\ query.err = "none"
    /\ query.held.name # query.receiver.name
    /\ query.held.updatedAt > query.receiver.updatedAt
    /\ query.held.createdAt = query.receiver.createdAt

\* C25: mapper round-trip law. For every valid Food E,
\* FoodMapper.toDomain(FoodMapper.toPersistence(E)) has every observable
\* field equal to E's; for every valid PantryItem P,
\* PantryItemMapper.toDomain(PantryItemMapper.toPersistence(P), P.food) has
\* every observable field equal to P's (same instants, absent optional fields
\* stay absent); toDomain with a Food whose id differs from the row's food_id
\* fails.
C25_MapperRoundTrip ==
    query.phase = "mapped" =>
        /\ query.row.err = "none"
        /\ IF query.type = "PantryItem" /\ query.food # query.entity.food
           THEN query.back.err =
                    "Food ID mismatch: provided food does not match persisted foodId"
           ELSE query.back.err = "none" /\ query.back.v = query.entity

\* C26: parameter-name collision. When two instances of one parameterized
\* specification type with different values are combined with and/or, the
\* merged parameter map has a single entry under the shared name, holding the
\* right operand's value: the query filters both operands by that value, so
\* byCategory(X).or(byCategory(Y)) selects exactly the rows of category Y.
C26_ParameterCollision ==
    (query.phase = "queried" /\ query.spec \in Collisions) =>
        /\ Params(query.spec) = <<[name |-> ParamName(query.spec.right.type),
                                   arg |-> query.spec.right.arg,
                                   num |-> query.spec.right.num]>>
        /\ StoredEntity \in query.found <=> FoodWhere(query.spec.right, query.row)
\* byCategory(FRUIT).or(byCategory(DAIRY)) does not find a stored FRUIT.
C26_Witness ==
    /\ query.phase = "queried"
    /\ query.spec = [type |-> "or",
                     left |-> [type |-> "byCategory", arg |-> "FRUIT", num |-> 0],
                     right |-> [type |-> "byCategory", arg |-> "DAIRY", num |-> 0]]
    /\ query.row.category = "FRUIT"
    /\ query.found = {}
    /\ IsSatisfiedBy(query.spec, StoredEntity)

\* C27: negation over optional fields. For every specification S on an
\* optional column (PantryItem location, Food brand, Food barcode) and every
\* stored entity, those whose optional field is absent (stored as NULL)
\* included, find(S.not()) returns the entity if and only if
\* S.not().isSatisfiedBy(entity) is true.
C27_NegationOverOptional ==
    (query.phase = "queried" /\ query.spec.type = "not")
    => (StoredEntity \in query.found <=> NotIsSatisfiedBy(query.spec.spec, StoredEntity))

\* Every column of the stored row holds the value of its own field of the
\* entity last written; created_at that of the entity first saved.
Aligned ==
    LET row == FoodMapperToPersistence(query.entity).v
    IN \A k \in 1..Len(ColumnList) :
          query.row[ColumnList[k]] =
              IF ColumnList[k] = "created_at" THEN InstantToISOString(query.created)
              ELSE ColumnValue(ColumnList[k], row[ColumnList[k]])

\* C28: write-then-read through storage. The column list, the placeholder
\* list and the insert/update parameter arrays are position-aligned with the
\* INSERT and UPDATE statements: after save(E) for an id not yet stored,
\* findById(E.id) returns an entity whose observable fields all equal E's;
\* after update(E2) for a stored id, findById returns E2's fields with the
\* stored createdAt unchanged; no value is written into a column other than
\* its own.
C28_WriteThenRead ==
    (query.phase = "written" /\ query.found # {}) =>
        /\ Aligned
        /\ query.found = {Returned([query.entity EXCEPT !.createdAt = query.created])}

\* The versions a run is to apply: the pending migrations in ascending order
\* up to the first whose up() fails.
ToApply ==
    LET pending == SelectSeq(SortByVersion(query.list),
                             LAMBDA m : m.version \notin query.before.ledger)
        failing == {k \in 1..Len(pending) : pending[k].fails}
        last == IF failing = {} THEN Len(pending)
                ELSE (CHOOSE k \in failing : \A j \in failing : k <= j) - 1
    IN [applied |-> [k \in 1..last |-> pending[k].version], failed |-> failing # {}]

\* C29: migration execution. Starting from a database with no tables,
\* DatabaseInitializer.initialize() completes successfully, MigrationRunner.run
\* applying each pending migration exactly once in ascending version order and
\* recording it in the migrations table; a second run over the same list
\* applies nothing; a migration whose up() fails is not recorded and stops the
\* run before any later migration.
C29_MigrationExecution ==
    query.phase \in {"migrated", "again"} =>
        /\ query.err = "none" <=> ~ToApply.failed
        /\ SelectSeq(query.results, LAMBDA r : r.success)
               = [k \in DOMAIN ToApply.applied |-> Result([version |-> ToApply.applied[k]], TRUE)]
        /\ query.db.ledger = query.before.ledger
                               \cup {ToApply.applied[k] : k \in DOMAIN ToApply.applied}
        /\ (query.op = "initialize" /\ query.before = FreshDatabase)
               => query.err = "none" /\ query.db.ledger = {InitialSchema.version}

\* The rows of foods and pantry_items
Rows == {<<"foods", f>> : f \in FoodIds} \cup {<<"pantry_items", i>> : i \in ItemIds}
Contents(t, row) == IF row[1] = "foods" THEN t.foods[row[2]] ELSE t.pantry[row[2]]

\* C30: isolation of writes made outside a transaction. A repository write
\* that completed successfully outside any unit-of-work transaction stays
\* visible in storage however a UnitOfWork.execute in flight on the same
\* connection ends: no step takes away what the write gave a row, unless it
\* is a later write to that row.
C30_OutsideWriteIsolation ==
    [][\A u \in done.outside : \A row \in done.changed :
          (/\ Contents(tables, row) = Contents(u, row)
           /\ Contents(tables', row) # Contents(u, row))
          => \E p \in Procs : \E c \in Writes :
                 RepositoryWrite(p, c) \/ CallbackWrite(p, c)]_vars

====
